---- MODULE Spec2Model ----
(***************************************************************************)
(* NodeStorage: the in-memory credential cache of msal-node.               *)
(*                                                                         *)
(* The flat store `cache` maps cache keys to cache entries; every mutating *)
(* operation calls the registered change emitters.  Each operation of the  *)
(* class is one action; the operations it calls (setCache, emitChange,     *)
(* removeItem ...) are operators over a record st = [cache, log, emits]    *)
(* that carries the store, the callback invocations made so far by the     *)
(* running operation, and the number of emitChange() calls it made.        *)
(*                                                                         *)
(* PerformanceClient (msal-common telemetry) and FetchClient (msal-browser *)
(* network) are modelled next to it: the four maps of a PerformanceClient  *)
(* with the measurements its callers hold, and one FetchClient request     *)
(* from the call to the settling of its promise.                           *)
(***************************************************************************)
EXTENDS Integers, Sequences, FiniteSets, TLC

VARIABLES
    cache,          \* NodeStorage.cache: cache key -> cache entry
    changeEmitters, \* NodeStorage.changeEmitters: callbacks in registration order
    called,         \* callback invocations made by the last operation, in order,
                    \* each with the store the callback could read when it ran
    last,           \* the last operation: its name, arguments and result
    run,            \* number of setItem calls made in a row, ending now
    runCalls,       \* callback invocations made during those calls
    queueTime,      \* PerformanceClient.calculateQueuedTime: the arguments of a
                    \* call, whether it has returned, and what it returned
    callbacks,      \* PerformanceClient.callbacks: {callbackId, callback}, in
                    \* the order Map.forEach visits them
    eventsByCorrelationId,       \* correlation id -> in-progress root event
    preQueueTimeByCorrelationId, \* correlation id -> pre-queue event {name, time}
    queueMeasurements,           \* correlation id -> queue measurements, in order
    generated,      \* number of ids generateId() has handed out
    measurements,   \* the measurements startMeasurement has returned:
                    \* event id -> what its closures hold, whether it was ended
    perf,           \* the last PerformanceClient call: name, arguments, result
                    \* and the callback invocations it made, in order
    onLine,         \* window.navigator.onLine
    request         \* the FetchClient request in flight, or how it ended

\* the fields of a PerformanceClient and the record of the calls made to it
perfVars == <<callbacks, eventsByCorrelationId, preQueueTimeByCorrelationId,
              queueMeasurements, generated, measurements, perf>>

\* the browser around a FetchClient and its request
fetchVars == <<onLine, request>>

vars == <<cache, changeEmitters, called, last, run, runCalls, queueTime,
          callbacks, eventsByCorrelationId, preQueueTimeByCorrelationId,
          queueMeasurements, generated, measurements, perf, onLine, request>>

----------------------------------------------------------------------------
(* Bounds *)

MaxEmitters == 2    \* registerChangeEmitter is called at most this often
MaxRun == 3         \* at most this many setItem calls in a row
MaxEntries == 1     \* entries the typed-accessor specification keeps in the store
MaxTime == 7        \* the latest time, in milliseconds, handed to calculateQueuedTime
MaxQueued == 2      \* queue measurements a PerformanceClient holds at a time
MaxIds == 3         \* ids generateId hands out
MaxBody == 3        \* tokens in the body of a response

----------------------------------------------------------------------------
(* Cache entries.  An entry is a record                                    *)
(*   cls   : the class it is an instance of (what `instanceof` sees),      *)
(*   shape : the kind its own fields make it (what a classifier sees),     *)
(*   id    : its identifying fields; for a string, its length.             *)

Kinds == {"Account", "IdToken", "AccessToken", "RefreshToken", "AppMetadata",
          "ServerTelemetry", "Throttling", "AuthorityMetadata"}

Entity(cls, shape, id) == [cls |-> cls, shape |-> shape, id |-> id]

Undefined == Entity("undefined", "None", 0)   \* reading a property that is not there
Null == Entity("null", "None", 0)             \* what a typed getter returns for "not found"
EmptyString == Entity("String", "None", 0)    \* "", the one falsy ValidCacheType
PlainObject == Entity("Object", "None", 1)    \* an object of no recognised kind

\* JavaScript truthiness of an entry: objects and non-empty strings are truthy.
Truthy(v) == v \notin {Undefined, Null, EmptyString}

\* An instance of the class of kind K, as the library itself creates it.
Instance(K, id) == Entity(K \o "Entity", K, id)

\* An object with the fields of kind K but not created by K's class
\* (written by another process or read back from a JSON document).
Shaped(K, id) == Entity("Object", K, id)

----------------------------------------------------------------------------
(* Cache keys: <<prefix, id>>.  The prefix is the reserved leading part of *)
(* the key ("appmetadata", "server-telemetry", "throttling",               *)
(* "authority-metadata"), or "cred" for account and credential keys, which *)
(* start with a home account id.                                           *)

KeyPrefixes == {"cred", "appmetadata", "server-telemetry", "throttling",
                "authority-metadata"}

\* Keys and values of the flat-store specification (Spec).
FlatKeys == {<<"cred", 1>>, <<"cred", 2>>, <<"server-telemetry", 1>>}
FlatValues == {EmptyString, PlainObject, Instance("Account", 1),
               Shaped("ServerTelemetry", 1)}

Callbacks == {"cb1", "cb2"}

----------------------------------------------------------------------------
(* Maps (JavaScript objects used as dictionaries) *)

EmptyMap == [k \in {} |-> Undefined]

Put(m, key, value) == [k \in DOMAIN m \cup {key} |-> IF k = key THEN value ELSE m[k]]

Del(m, key) == [k \in DOMAIN m \ {key} |-> m[k]]

\* { ...a, ...b }: the entries of b overwrite those of a
Spread(a, b) == [k \in DOMAIN a \cup DOMAIN b |-> IF k \in DOMAIN b THEN b[k] ELSE a[k]]

\* every enumeration order of a set of keys
Orders(S) == {o \in [1..Cardinality(S) -> S] : \A i, j \in DOMAIN o : o[i] = o[j] => i = j}

----------------------------------------------------------------------------
(* Change notification *)

\* emitChange() walking the array from its end
emitChangeBackwards(st) ==
    [st EXCEPT !.log = @ \o [i \in 1..Len(changeEmitters) |->
                                [cb |-> changeEmitters[Len(changeEmitters) + 1 - i],
                                 seen |-> st.cache]],
               !.emits = @ + 1]

\* emitChange(): call every registered callback, in array order
emitChange(st) ==
    [st EXCEPT !.log = @ \o [i \in 1..Len(changeEmitters) |->
                                [cb |-> changeEmitters[i], seen |-> st.cache]],
               !.emits = @ + 1]

----------------------------------------------------------------------------
(* Flat store *)

getCache(st) == st.cache

\* setCache marking the change before it assigns
setCacheEmitFirst(st, c) == [emitChange(st) EXCEPT !.cache = c]

\* setCache(cache): assign, then mark the change
setCache(st, c) == emitChange([st EXCEPT !.cache = c])

\* getItem(key): cache[key], undefined when the key is not there
getItem(st, key) == IF key \in DOMAIN getCache(st) THEN getCache(st)[key] ELSE Undefined

\* setItem that skips the write when the value is already stored
setItemIfChanged(st, key, value) ==
    IF key \in DOMAIN getCache(st) /\ getCache(st)[key] = value
    THEN st
    ELSE emitChange([st EXCEPT !.cache = Put(getCache(st), key, value)])

\* setItem that writes a fresh map holding only the new entry
setItemFresh(st, key, value) ==
    emitChange([st EXCEPT !.cache = Put(EmptyMap, key, value)])

\* setItem(key, value): cache[key] = value; setCache(cache)
setItem(st, key, value) == setCache(st, Put(getCache(st), key, value))

\* getKeys(): Object.keys(cache)
getKeys(st) == DOMAIN getCache(st)

\* containsKey(key): getKeys().includes(key)
containsKey(st, key) == key \in getKeys(st)

\* removeItem that writes back and notifies whether or not it removed anything
removeItemAlwaysNotifies(st, key) ==
    LET result == Truthy(getItem(st, key))
        c == IF result THEN Del(getCache(st), key) ELSE getCache(st)
    IN  [st |-> emitChange(emitChange([st EXCEPT !.cache = c])), result |-> result]

\* removeItem(key): deletes only when !!cache[key]; then setCache and emitChange
removeItem(st, key) ==
    LET result == Truthy(getItem(st, key))
    IN  IF result
        THEN [st |-> emitChange(setCache(st, Del(getCache(st), key))), result |-> TRUE]
        ELSE [st |-> st, result |-> FALSE]

RECURSIVE removeEach(_, _)
\* cacheKeys.forEach((key) => this.removeItem(key))
removeEach(st, cacheKeys) ==
    IF cacheKeys = <<>> THEN st
    ELSE removeEach(removeItem(st, Head(cacheKeys)).st, Tail(cacheKeys))

\* clear(): remove each key of getKeys(), in the order getKeys() lists them,
\* then emitChange()
clear(st, cacheKeys) == emitChange(removeEach(st, cacheKeys))

----------------------------------------------------------------------------
(* Bucketed view *)

InMemoryCache(accounts, idTokens, accessTokens, refreshTokens, appMetadata) ==
    [accounts |-> accounts, idTokens |-> idTokens, accessTokens |-> accessTokens,
     refreshTokens |-> refreshTokens, appMetadata |-> appMetadata]

\* the kinds that have a bucket, and their buckets, in the order of the view
BucketOrder == <<"Account", "IdToken", "AccessToken", "RefreshToken", "AppMetadata">>
BucketNames == <<"accounts", "idTokens", "accessTokens", "refreshTokens", "appMetadata">>

\* the keys of the entries a bucketed view supplies
ViewKeys(view) == UNION {DOMAIN view[BucketNames[i]] : i \in DOMAIN BucketNames}

\* inMemoryCacheToCache that spreads the accounts last
inMemoryCacheToCacheAccountsLast(st, inMemoryCache) ==
    Spread(Spread(Spread(Spread(Spread(getCache(st),
        inMemoryCache.idTokens),
        inMemoryCache.accessTokens),
        inMemoryCache.refreshTokens),
        inMemoryCache.appMetadata),
        inMemoryCache.accounts)

\* inMemoryCacheToCache that starts from an empty object instead of the store
inMemoryCacheToCacheOnlyBuckets(st, inMemoryCache) ==
    Spread(Spread(Spread(Spread(Spread(EmptyMap,
        inMemoryCache.accounts),
        inMemoryCache.idTokens),
        inMemoryCache.accessTokens),
        inMemoryCache.refreshTokens),
        inMemoryCache.appMetadata)

\* inMemoryCacheToCache(inMemoryCache): the current store, then the five
\* buckets spread over it in this order
inMemoryCacheToCache(st, inMemoryCache) ==
    Spread(Spread(Spread(Spread(Spread(getCache(st),
        inMemoryCache.accounts),
        inMemoryCache.idTokens),
        inMemoryCache.accessTokens),
        inMemoryCache.refreshTokens),
        inMemoryCache.appMetadata)

\* setInMemoryCache that installs the store after each bucket it has merged
setInMemoryCacheBucketByBucket(st, inMemoryCache) ==
    LET st1 == setCache(st, Spread(getCache(st), inMemoryCache.accounts))
        st2 == setCache(st1, Spread(getCache(st1), inMemoryCache.idTokens))
        st3 == setCache(st2, Spread(getCache(st2), inMemoryCache.accessTokens))
        st4 == setCache(st3, Spread(getCache(st3), inMemoryCache.refreshTokens))
    IN  emitChange(setCache(st4, Spread(getCache(st4), inMemoryCache.appMetadata)))

\* setInMemoryCache(inMemoryCache): setCache(merged); emitChange()
setInMemoryCache(st, inMemoryCache) ==
    emitChange(setCache(st, inMemoryCacheToCache(st, inMemoryCache)))

----------------------------------------------------------------------------
(* Codec boundary.  A JSON document has one member per kind, "Account",    *)
(* "IdToken", "AccessToken", "RefreshToken", "AppMetadata"; a member lists *)
(* cache keys with JSON objects, in the order the serializer met the keys  *)
(* (the enumeration order of the bucket, given as `order`).                *)

JsonCache(Account, IdToken, AccessToken, RefreshToken, AppMetadata) ==
    [Account |-> Account, IdToken |-> IdToken, AccessToken |-> AccessToken,
     RefreshToken |-> RefreshToken, AppMetadata |-> AppMetadata]

\* the JSON object the serializer of kind K writes: K's fields as it reads
\* them from the entity; a field the entity does not have is left out
JsonObject(K, entity) == [kind |-> K, id |-> IF entity.shape = K THEN entity.id ELSE 0]

\* the entity the deserializer of kind K builds: a new instance of K's class
\* with the fields the JSON object has for it
FromJsonObject(K, json) ==
    IF json.kind = K /\ json.id # 0
    THEN Entity(K \o "Entity", K, json.id)
    ELSE Entity(K \o "Entity", "None", 0)

serializeBucket(bucket, order, K) ==
    LET In(key) == key \in DOMAIN bucket
        keys == SelectSeq(order, In)
    IN  [i \in 1..Len(keys) |-> [key |-> keys[i], json |-> JsonObject(K, bucket[keys[i]])]]

\* Serializer.serializeAllCache
serializeAllCache(inMemCache, order) ==
    JsonCache(serializeBucket(inMemCache.accounts, order, "Account"),
              serializeBucket(inMemCache.idTokens, order, "IdToken"),
              serializeBucket(inMemCache.accessTokens, order, "AccessToken"),
              serializeBucket(inMemCache.refreshTokens, order, "RefreshToken"),
              serializeBucket(inMemCache.appMetadata, order, "AppMetadata"))

\* a blob: the empty string, or the text of a JSON document
EmptyBlob == [empty |-> TRUE, text |-> JsonCache(<<>>, <<>>, <<>>, <<>>, <<>>)]
JSONstringify(document) == [empty |-> FALSE, text |-> document]

\* Deserializer.deserializeJSONBlob: {} for an empty blob, else JSON.parse
deserializeJSONBlob(jsonFile) ==
    IF jsonFile.empty THEN JsonCache(<<>>, <<>>, <<>>, <<>>, <<>>) ELSE jsonFile.text

deserializeBucket(member, K) ==
    [key \in {member[i].key : i \in DOMAIN member} |->
        LET at == CHOOSE i \in DOMAIN member :
                     /\ member[i].key = key
                     /\ \A j \in DOMAIN member : member[j].key = key => j <= i
        IN  FromJsonObject(K, member[at].json)]

\* Deserializer.deserializeAllCache
deserializeAllCache(jsonCache) ==
    InMemoryCache(deserializeBucket(jsonCache.Account, "Account"),
                  deserializeBucket(jsonCache.IdToken, "IdToken"),
                  deserializeBucket(jsonCache.AccessToken, "AccessToken"),
                  deserializeBucket(jsonCache.RefreshToken, "RefreshToken"),
                  deserializeBucket(jsonCache.AppMetadata, "AppMetadata"))

\* generateInMemoryCache that reads only the accounts of the document
generateInMemoryCacheOfAccounts(cacheBlob) ==
    LET jsonCache == deserializeJSONBlob(cacheBlob)
    IN  deserializeAllCache(JsonCache(jsonCache.Account, <<>>, <<>>, <<>>, <<>>))

\* static generateInMemoryCache(cache); the parameter is the blob
generateInMemoryCache(cacheBlob) == deserializeAllCache(deserializeJSONBlob(cacheBlob))

\* static generateJsonCache(inMemoryCache)
generateJsonCache(inMemoryCache, order) == serializeAllCache(inMemoryCache, order)

----------------------------------------------------------------------------
(* Classifiers of the entity kinds.  An entry is of the kind its own       *)
(* fields make it; the kinds whose validity depends on the key also test   *)
(* the key's reserved prefix.  What a key-embedded classifier answers for  *)
(* a missing (falsy) value is left to the key alone, the most a classifier *)
(* could accept: the getters test the value themselves before asking.      *)

isAccountEntity(entity) == entity.shape = "Account"

isIdTokenEntity(entity) == entity.shape = "IdToken"

isAccessTokenEntity(entity) == entity.shape = "AccessToken"

isRefreshTokenEntity(entity) == entity.shape = "RefreshToken"

isAppMetadataEntity(key, entity) ==
    key[1] = "appmetadata" /\ entity.shape = "AppMetadata"

isServerTelemetryEntity(key, entity) ==
    key[1] = "server-telemetry" /\ (Truthy(entity) => entity.shape = "ServerTelemetry")

isThrottlingEntity(key, entity) ==
    key[1] = "throttling" /\ (Truthy(entity) => entity.shape = "Throttling")

isAuthorityMetadataEntity(key, entity) ==
    key[1] = "authority-metadata" /\ (Truthy(entity) => entity.shape = "AuthorityMetadata")

\* Does the classifier of `kind` accept `entity` stored under `key`?
Accepts(kind, key, entity) ==
    CASE kind = "Account" -> isAccountEntity(entity)
      [] kind = "IdToken" -> isIdTokenEntity(entity)
      [] kind = "AccessToken" -> isAccessTokenEntity(entity)
      [] kind = "RefreshToken" -> isRefreshTokenEntity(entity)
      [] kind = "AppMetadata" -> isAppMetadataEntity(key, entity)
      [] kind = "ServerTelemetry" -> isServerTelemetryEntity(key, entity)
      [] kind = "Throttling" -> isThrottlingEntity(key, entity)
      [] kind = "AuthorityMetadata" -> isAuthorityMetadataEntity(key, entity)

----------------------------------------------------------------------------
(* Typed getters *)

\* getAccount that returns whatever getItem gave
getAccountUnchecked(st, accountKey) == getItem(st, accountKey)

getAccount(st, accountKey) ==
    LET account == getItem(st, accountKey)
    IN  IF isAccountEntity(account) THEN account ELSE Null

\* getIdTokenCredential that accepts a credential of any type
getAnyCredential(st, idTokenKey) ==
    LET idToken == getItem(st, idTokenKey)
    IN  IF idToken.shape \in {"IdToken", "AccessToken", "RefreshToken"}
        THEN idToken ELSE Null

getIdTokenCredential(st, idTokenKey) ==
    LET idToken == getItem(st, idTokenKey)
    IN  IF isIdTokenEntity(idToken) THEN idToken ELSE Null

getAccessTokenCredential(st, accessTokenKey) ==
    LET accessToken == getItem(st, accessTokenKey)
    IN  IF isAccessTokenEntity(accessToken) THEN accessToken ELSE Null

getRefreshTokenCredential(st, refreshTokenKey) ==
    LET refreshToken == getItem(st, refreshTokenKey)
    IN  IF isRefreshTokenEntity(refreshToken) THEN refreshToken ELSE Null

getAppMetadata(st, appMetadataKey) ==
    LET appMetadata == getItem(st, appMetadataKey)
    IN  IF isAppMetadataEntity(appMetadataKey, appMetadata) THEN appMetadata ELSE Null

getServerTelemetry(st, serverTelemetrykey) ==
    LET serverTelemetryEntity == getItem(st, serverTelemetrykey)
    IN  IF /\ Truthy(serverTelemetryEntity)
           /\ isServerTelemetryEntity(serverTelemetrykey, serverTelemetryEntity)
        THEN serverTelemetryEntity ELSE Null

getAuthorityMetadata(st, key) ==
    LET authorityMetadataEntity == getItem(st, key)
    IN  IF /\ Truthy(authorityMetadataEntity)
           /\ isAuthorityMetadataEntity(key, authorityMetadataEntity)
        THEN authorityMetadataEntity ELSE Null

\* isAuthorityMetadata(key) of the CacheManager base class: the key is an
\* authority-metadata key
isAuthorityMetadata(key) == key[1] = "authority-metadata"

\* getAuthorityMetadataKeys that lists the keys whose entry is authority metadata
getAuthorityMetadataKeysByEntry(st) ==
    {key \in getKeys(st) : getAuthorityMetadata(st, key) # Null}

\* getAuthorityMetadataKeys(): getKeys().filter(isAuthorityMetadata)
getAuthorityMetadataKeys(st) == {key \in getKeys(st) : isAuthorityMetadata(key)}

getThrottlingCache(st, throttlingCacheKey) ==
    LET throttlingCache == getItem(st, throttlingCacheKey)
    IN  IF /\ Truthy(throttlingCache)
           /\ isThrottlingEntity(throttlingCacheKey, throttlingCache)
        THEN throttlingCache ELSE Null

\* the typed getter of `kind`
TypedGet(kind, st, key) ==
    CASE kind = "Account" -> getAccount(st, key)
      [] kind = "IdToken" -> getIdTokenCredential(st, key)
      [] kind = "AccessToken" -> getAccessTokenCredential(st, key)
      [] kind = "RefreshToken" -> getRefreshTokenCredential(st, key)
      [] kind = "AppMetadata" -> getAppMetadata(st, key)
      [] kind = "ServerTelemetry" -> getServerTelemetry(st, key)
      [] kind = "Throttling" -> getThrottlingCache(st, key)
      [] kind = "AuthorityMetadata" -> getAuthorityMetadata(st, key)

----------------------------------------------------------------------------
(* Key generators.  A generated key is <<lead, part>>: the lead is the     *)
(* reserved prefix ("appmetadata") or, for accounts and credentials, the   *)
(* kind the key's layout spells out (the credential type is a part of a    *)
(* credential key); the part is the entity's identifying fields.  An       *)
(* entity's id holds its identifying fields in its last digit and the rest *)
(* of its payload above it: ids 1 and 11 are two entities with one key.    *)

IdentifyingFields(entity) == entity.id % 10

generateAccountKey(account) == <<"account", IdentifyingFields(account)>>

generateCredentialKey(credential) ==
    <<CASE credential.shape = "IdToken" -> "idtoken"
        [] credential.shape = "AccessToken" -> "accesstoken"
        [] credential.shape = "RefreshToken" -> "refreshtoken"
        [] OTHER -> "cred",
      IdentifyingFields(credential)>>

generateAppMetadataKey(appMetadata) == <<"appmetadata", IdentifyingFields(appMetadata)>>

----------------------------------------------------------------------------
(* Typed setters *)

\* setAccount that stores under a key of its own making
setAccountUnderOtherKey(st, account) ==
    setItem(st, <<"cred", IdentifyingFields(account)>>, account)

setAccount(st, account) == setItem(st, generateAccountKey(account), account)

setIdTokenCredential(st, idToken) == setItem(st, generateCredentialKey(idToken), idToken)

setAccessTokenCredential(st, accessToken) ==
    setItem(st, generateCredentialKey(accessToken), accessToken)

setRefreshTokenCredential(st, refreshToken) ==
    setItem(st, generateCredentialKey(refreshToken), refreshToken)

setAppMetadata(st, appMetadata) ==
    setItem(st, generateAppMetadataKey(appMetadata), appMetadata)

\* setServerTelemetry that stores under the bare reserved prefix
setServerTelemetryUnderPrefix(st, serverTelemetryKey, serverTelemetry) ==
    setItem(st, <<serverTelemetryKey[1], 0>>, serverTelemetry)

setServerTelemetry(st, serverTelemetryKey, serverTelemetry) ==
    setItem(st, serverTelemetryKey, serverTelemetry)

setAuthorityMetadata(st, key, metadata) == setItem(st, key, metadata)

setThrottlingCache(st, throttlingCacheKey, throttlingCache) ==
    setItem(st, throttlingCacheKey, throttlingCache)

----------------------------------------------------------------------------
(* Flat store to bucketed view *)

\* value instanceof the class of kind K
InstanceOf(value, K) == value.cls = K \o "Entity"

\* the if / else-if chain of cacheToInMemoryCache: the bucket a value goes to
BucketOf(value) ==
    IF InstanceOf(value, "Account") THEN "accounts"
    ELSE IF InstanceOf(value, "IdToken") THEN "idTokens"
    ELSE IF InstanceOf(value, "AccessToken") THEN "accessTokens"
    ELSE IF InstanceOf(value, "RefreshToken") THEN "refreshTokens"
    ELSE IF InstanceOf(value, "AppMetadata") THEN "appMetadata"
    ELSE "continue"

Bucket(c, name) == [key \in {k \in DOMAIN c : BucketOf(c[k]) = name} |-> c[key]]

\* cacheToInMemoryCache whose last branch keeps what nothing else took
cacheToInMemoryCacheKeepsRest(c) ==
    InMemoryCache(Bucket(c, "accounts"), Bucket(c, "idTokens"), Bucket(c, "accessTokens"),
                  Bucket(c, "refreshTokens"),
                  Spread(Bucket(c, "appMetadata"), Bucket(c, "continue")))

\* cacheToInMemoryCache that also lists every credential among the id tokens
cacheToInMemoryCacheCredentialsTwice(c) ==
    InMemoryCache(Bucket(c, "accounts"),
                  Spread(Spread(Bucket(c, "idTokens"), Bucket(c, "accessTokens")),
                         Bucket(c, "refreshTokens")),
                  Bucket(c, "accessTokens"), Bucket(c, "refreshTokens"),
                  Bucket(c, "appMetadata"))

cacheToInMemoryCache(c) ==
    InMemoryCache(Bucket(c, "accounts"), Bucket(c, "idTokens"), Bucket(c, "accessTokens"),
                  Bucket(c, "refreshTokens"), Bucket(c, "appMetadata"))

getInMemoryCache(st) == cacheToInMemoryCache(getCache(st))

\* getAccountKeys that lists every key of the store
getAccountKeysOfAll(st) == getKeys(st)

\* getAccountKeys(): Object.keys(inMemoryCache.accounts)
getAccountKeys(st) == DOMAIN getInMemoryCache(st).accounts

getTokenKeys(st) ==
    LET inMemoryCache == getInMemoryCache(st)
    IN  [idToken |-> DOMAIN inMemoryCache.idTokens,
         accessToken |-> DOMAIN inMemoryCache.accessTokens,
         refreshToken |-> DOMAIN inMemoryCache.refreshTokens]

----------------------------------------------------------------------------
(* PerformanceClient *)

\* calculateQueuedTime without the test for a current time before the pre-queue time
calculateQueuedTimeUnordered(preQueueTime, currentTime) ==
    IF preQueueTime < 1 THEN 0
    ELSE IF currentTime < 1 THEN 0
    ELSE currentTime - preQueueTime

\* calculateQueuedTime(preQueueTime, currentTime)
calculateQueuedTime(preQueueTime, currentTime) ==
    IF preQueueTime < 1 THEN 0
    ELSE IF currentTime < 1 THEN 0
    ELSE IF currentTime < preQueueTime THEN 0
    ELSE currentTime - preQueueTime

\* An optional argument or result: left out (undefined, null) or given.
NotGiven == <<>>
Given(v) == <<v>>

\* !correlationId: undefined and "" are the falsy correlation ids
NoCorrelationId(correlationId) == correlationId = NotGiven \/ correlationId[1] = ""

\* !n for an optional number: undefined and 0 are falsy
NoNumber(n) == n = NotGiven \/ n[1] = 0

\* Names of measured operations (members of PerformanceEvents).
PerformanceEvents == {"SilentRefreshClientAcquireToken", "InitializeBaseRequest"}

\* The PerformanceClient as the running call sees it: its four maps, the
\* number of generated ids and the callback invocations the call has made.
This ==
    [callbacks |-> callbacks,
     eventsByCorrelationId |-> eventsByCorrelationId,
     preQueueTimeByCorrelationId |-> preQueueTimeByCorrelationId,
     queueMeasurements |-> queueMeasurements,
     generated |-> generated,
     invoked |-> <<>>]

\* generateId(): an id no earlier call has returned
generateId(pc) ==
    [pc |-> [pc EXCEPT !.generated = @ + 1],
     id |-> "id" \o ToString(pc.generated + 1)]

\* getPreQueueTime(eventName, correlationId): the time of the pre-queue event
\* held for the correlation id, if it has this name
getPreQueueTime(pc, eventName, correlationId) ==
    IF correlationId \notin DOMAIN pc.preQueueTimeByCorrelationId
    THEN NotGiven
    ELSE IF pc.preQueueTimeByCorrelationId[correlationId].name # eventName
    THEN NotGiven
    ELSE Given(pc.preQueueTimeByCorrelationId[correlationId].time)

\* addQueueMeasurement that treats a queue time of 0 as no queue time
addQueueMeasurementOfPositive(pc, eventName, correlationId, queuedTime, manuallyCompleted) ==
    IF NoCorrelationId(correlationId) \/ NoNumber(queuedTime)
    THEN pc
    ELSE LET queueMeasurement == [eventName |-> eventName,
                                  queueTime |-> queuedTime[1],
                                  manuallyCompleted |-> manuallyCompleted]
             existing == correlationId[1] \in DOMAIN pc.queueMeasurements
         IN  [pc EXCEPT
                !.queueMeasurements =
                    Put(@, correlationId[1],
                        IF existing THEN Append(@[correlationId[1]], queueMeasurement)
                        ELSE <<queueMeasurement>>),
                !.preQueueTimeByCorrelationId = Del(@, correlationId[1])]

\* addQueueMeasurement(eventName, correlationId?, queueTime?, manuallyCompleted?)
addQueueMeasurement(pc, eventName, correlationId, queuedTime, manuallyCompleted) ==
    IF NoCorrelationId(correlationId)
    THEN pc
    ELSE IF queuedTime # Given(0) /\ NoNumber(queuedTime)
    THEN pc
    ELSE LET queueMeasurement == [eventName |-> eventName,
                                  queueTime |-> queuedTime[1],
                                  manuallyCompleted |-> manuallyCompleted]
             existing == correlationId[1] \in DOMAIN pc.queueMeasurements
         IN  [pc EXCEPT
                !.queueMeasurements =
                    Put(@, correlationId[1],
                        IF existing THEN Append(@[correlationId[1]], queueMeasurement)
                        ELSE <<queueMeasurement>>),
                !.preQueueTimeByCorrelationId = Del(@, correlationId[1])]

\* setPreQueueTime(eventName, correlationId?) at time `time`: a pre-queue
\* event still held for the correlation id is handed to addQueueMeasurement
\* without a queue time, then the new one is stored
setPreQueueTime(pc, eventName, correlationId, time) ==
    IF NoCorrelationId(correlationId)
    THEN pc
    ELSE LET held == correlationId[1] \in DOMAIN pc.preQueueTimeByCorrelationId
             completed ==
                 IF held
                 THEN addQueueMeasurement(pc,
                          pc.preQueueTimeByCorrelationId[correlationId[1]].name,
                          correlationId, NotGiven, Given(TRUE))
                 ELSE pc
         IN  [completed EXCEPT
                !.preQueueTimeByCorrelationId =
                    Put(@, correlationId[1], [name |-> eventName, time |-> time])]

\* cacheEventByCorrelationId(event): the first event of a correlation id is
\* stored as its root; a later one is entered in the root's incomplete
\* sub-measurements
cacheEventByCorrelationId(pc, event) ==
    IF event.correlationId \in DOMAIN pc.eventsByCorrelationId
    THEN [pc EXCEPT
            !.eventsByCorrelationId[event.correlationId].incompleteSubMeasurements =
                @ \cup {event.eventId}]
    ELSE [pc EXCEPT
            !.eventsByCorrelationId =
                Put(@, event.correlationId,
                    Put(event, "incompleteSubMeasurements", {}))]

\* startMeasurement(measureName, correlationId?): the new client state and
\* the event the returned closures hold
startMeasurement(pc, measureName, correlationId) ==
    LET eventCorrelationId ==
            IF NoCorrelationId(correlationId) THEN generateId(pc)
            ELSE [pc |-> pc, id |-> correlationId[1]]
        eventId == generateId(eventCorrelationId.pc)
        inProgressEvent ==
            [eventId |-> eventId.id,
             status |-> "InProgress",
             name |-> measureName,
             correlationId |-> eventCorrelationId.id]
    IN  [pc |-> cacheEventByCorrelationId(eventId.pc, inProgressEvent),
         event |-> inProgressEvent]

\* the forEach of getQueueInfo: add one measurement after the other
RECURSIVE forEachQueueMeasurement(_, _)
forEachQueueMeasurement(list, info) ==
    IF list = <<>> THEN info
    ELSE forEachQueueMeasurement(Tail(list),
            [totalQueueTime |-> info.totalQueueTime + Head(list).queueTime,
             totalQueueCount |-> info.totalQueueCount + 1,
             manuallyCompletedCount |->
                 info.manuallyCompletedCount +
                 (IF Head(list).manuallyCompleted = Given(TRUE) THEN 1 ELSE 0)])

NoQueueInfo == [totalQueueTime |-> 0, totalQueueCount |-> 0, manuallyCompletedCount |-> 0]

\* getQueueInfo that counts every measurement as manually completed
getQueueInfoAllManual(pc, correlationId) ==
    LET info == forEachQueueMeasurement(
                    IF correlationId \in DOMAIN pc.queueMeasurements
                    THEN pc.queueMeasurements[correlationId] ELSE <<>>,
                    NoQueueInfo)
    IN  [info EXCEPT !.manuallyCompletedCount = info.totalQueueCount]

\* getQueueInfo(correlationId)
getQueueInfo(pc, correlationId) ==
    forEachQueueMeasurement(
        IF correlationId \in DOMAIN pc.queueMeasurements
        THEN pc.queueMeasurements[correlationId] ELSE <<>>,
        NoQueueInfo)

\* discardMeasurements(correlationId)
discardMeasurements(pc, correlationId) ==
    [pc EXCEPT !.eventsByCorrelationId = Del(@, correlationId)]

\* discardCache that leaves the in-progress event in place
discardCacheOfQueue(pc, correlationId) ==
    [pc EXCEPT !.queueMeasurements = Del(@, correlationId),
               !.preQueueTimeByCorrelationId = Del(@, correlationId)]

\* discardCache(correlationId)
discardCache(pc, correlationId) ==
    [discardMeasurements(pc, correlationId) EXCEPT
        !.queueMeasurements = Del(@, correlationId),
        !.preQueueTimeByCorrelationId = Del(@, correlationId)]

\* emitEvents that stops after the first callback
emitEventsToFirst(pc, events, correlationId) ==
    [pc EXCEPT !.invoked = @ \o
        [i \in 1..(IF pc.callbacks = <<>> THEN 0 ELSE 1) |->
            [callbackId |-> pc.callbacks[i].callbackId,
             callback |-> pc.callbacks[i].callback,
             events |-> events]]]

\* emitEvents(events, correlationId): Map.forEach calls every registered
\* callback, in insertion order, with the events
emitEvents(pc, events, correlationId) ==
    [pc EXCEPT !.invoked = @ \o
        [i \in 1..Len(pc.callbacks) |->
            [callbackId |-> pc.callbacks[i].callbackId,
             callback |-> pc.callbacks[i].callback,
             events |-> events]]]

\* Durations are counted in half milliseconds, so that rounding shows.
MathFloor(halfMs) == halfMs \div 2
MathRound(halfMs) == (halfMs + 1) \div 2

\* endMeasurement(event, measurement), where the measurement's
\* flushMeasurement() returns durationMs (null: no measurement was taken)
endMeasurement(pc, event, durationMs) ==
    IF event.correlationId \notin DOMAIN pc.eventsByCorrelationId
    THEN [pc |-> pc, result |-> NotGiven]
    ELSE LET rootEvent == pc.eventsByCorrelationId[event.correlationId]
             isRoot == event.eventId = rootEvent.eventId
             queueInfo == IF isRoot THEN getQueueInfo(pc, event.correlationId)
                          ELSE NoQueueInfo
             ended ==
                 IF isRoot THEN discardCache(pc, rootEvent.correlationId)
                 ELSE [pc EXCEPT
                         !.eventsByCorrelationId[event.correlationId].incompleteSubMeasurements =
                             @ \ {event.eventId}]
         IN  IF NoNumber(durationMs)
             THEN [pc |-> ended, result |-> NotGiven]
             ELSE IF ~isRoot
             THEN LET updated ==
                          Put(ended.eventsByCorrelationId[event.correlationId],
                              event.name \o "DurationMs", MathFloor(durationMs[1]))
                  IN  [pc |-> [ended EXCEPT
                                 !.eventsByCorrelationId[event.correlationId] = updated],
                       result |-> Given(updated)]
             ELSE LET incompleteSubsCount == Cardinality(rootEvent.incompleteSubMeasurements)
                      finalEvent ==
                          Spread(Del(Spread(rootEvent, event), "incompleteSubMeasurements"),
                                 [durationMs |-> MathRound(durationMs[1]),
                                  queuedTimeMs |-> queueInfo.totalQueueTime,
                                  queuedCount |-> queueInfo.totalQueueCount,
                                  queuedManuallyCompletedCount |->
                                      queueInfo.manuallyCompletedCount,
                                  status |-> "Completed",
                                  incompleteSubsCount |-> incompleteSubsCount])
                  IN  [pc |-> emitEvents(ended, <<finalEvent>>, event.correlationId),
                       result |-> Given(finalEvent)]

\* addPerformanceCallback(callback): registered under a generated id
addPerformanceCallback(pc, callback) ==
    LET callbackId == generateId(pc)
    IN  [pc |-> [callbackId.pc EXCEPT
                   !.callbacks = Append(@, [callbackId |-> callbackId.id,
                                            callback |-> callback])],
         result |-> callbackId.id]

\* the ids under which callbacks are registered
CallbackIds(pc) == {pc.callbacks[i].callbackId : i \in DOMAIN pc.callbacks}

\* removePerformanceCallback(callbackId): Map.delete says whether it was there
removePerformanceCallback(pc, callbackId) ==
    [pc |-> [pc EXCEPT !.callbacks =
                 SelectSeq(@, LAMBDA c : c.callbackId # callbackId)],
     result |-> callbackId \in CallbackIds(pc)]

----------------------------------------------------------------------------
(* Key consistency repair *)

\* updateCredentialCacheKey that writes the item back although the key is current
updateCredentialCacheKeyRewrites(st, currentCacheKey, credential) ==
    LET updatedCacheKey == generateCredentialKey(credential)
        cacheItem == getItem(st, currentCacheKey)
    IN  IF Truthy(cacheItem)
        THEN [st |-> setItem(removeItem(st, currentCacheKey).st, updatedCacheKey, cacheItem),
              result |-> updatedCacheKey]
        ELSE [st |-> st, result |-> currentCacheKey]

\* updateCredentialCacheKey that stores the credential when it finds no item
updateCredentialCacheKeyUpserts(st, currentCacheKey, credential) ==
    LET updatedCacheKey == generateCredentialKey(credential)
        cacheItem == getItem(st, currentCacheKey)
    IN  IF currentCacheKey # updatedCacheKey
        THEN IF Truthy(cacheItem)
             THEN [st |-> setItem(removeItem(st, currentCacheKey).st,
                                  updatedCacheKey, cacheItem),
                   result |-> updatedCacheKey]
             ELSE [st |-> setItem(st, updatedCacheKey, credential),
                   result |-> currentCacheKey]
        ELSE [st |-> st, result |-> currentCacheKey]

\* updateCredentialCacheKey that copies the item and leaves the old key
updateCredentialCacheKeyCopies(st, currentCacheKey, credential) ==
    LET updatedCacheKey == generateCredentialKey(credential)
        cacheItem == getItem(st, currentCacheKey)
    IN  IF currentCacheKey # updatedCacheKey /\ Truthy(cacheItem)
        THEN [st |-> setItem(st, updatedCacheKey, cacheItem), result |-> updatedCacheKey]
        ELSE [st |-> st, result |-> currentCacheKey]

\* updateCredentialCacheKey that inserts under the new key before it removes
updateCredentialCacheKeyInsertsFirst(st, currentCacheKey, credential) ==
    LET updatedCacheKey == generateCredentialKey(credential)
        cacheItem == getItem(st, currentCacheKey)
    IN  IF currentCacheKey # updatedCacheKey /\ Truthy(cacheItem)
        THEN [st |-> removeItem(setItem(st, updatedCacheKey, cacheItem), currentCacheKey).st,
              result |-> updatedCacheKey]
        ELSE [st |-> st, result |-> currentCacheKey]

\* updateCredentialCacheKey(currentCacheKey, credential): when the generated
\* key differs and getItem(currentCacheKey) is truthy, removeItem(currentCacheKey),
\* setItem(updatedCacheKey, cacheItem) and return the new key; else the old key
updateCredentialCacheKey(st, currentCacheKey, credential) ==
    LET updatedCacheKey == generateCredentialKey(credential)
        cacheItem == getItem(st, currentCacheKey)
    IN  IF currentCacheKey # updatedCacheKey
        THEN IF Truthy(cacheItem)
             THEN [st |-> setItem(removeItem(st, currentCacheKey).st,
                                  updatedCacheKey, cacheItem),
                   result |-> updatedCacheKey]
             ELSE [st |-> st, result |-> currentCacheKey]
        ELSE [st |-> st, result |-> currentCacheKey]

----------------------------------------------------------------------------
(* Actions *)

Begin == [cache |-> cache, log |-> <<>>, emits |-> 0]

Op(name, key, kind, ok, val, emits) ==
    [op |-> name, key |-> key, kind |-> kind, ok |-> ok, val |-> val, emits |-> emits]

NoKey == <<"", 0>>

\* the store, the invocations and the record of a finished operation
Return(st, name, key, kind, ok, val) ==
    /\ cache' = st.cache
    /\ called' = st.log
    /\ last' = Op(name, key, kind, ok, val, st.emits)
    /\ UNCHANGED <<queueTime, perfVars, fetchVars>>

EndRun == run' = 0 /\ runCalls' = 0

RegisterChangeEmitter(func) ==
    /\ Len(changeEmitters) < MaxEmitters
    /\ changeEmitters' = Append(changeEmitters, func)
    /\ Return(Begin, "registerChangeEmitter", NoKey, "", TRUE, Undefined)
    /\ EndRun

SetItem(key, value) ==
    /\ run < MaxRun
    /\ LET st == setItem(Begin, key, value)
       IN  /\ Return(st, "setItem", key, "", TRUE, value)
           /\ run' = run + 1
           /\ runCalls' = runCalls + Len(st.log)
    /\ UNCHANGED changeEmitters

RemoveItem(key) ==
    /\ LET r == removeItem(Begin, key)
       IN  Return(r.st, "removeItem", key, "", r.result, Undefined)
    /\ EndRun
    /\ UNCHANGED changeEmitters

Clear ==
    /\ \E cacheKeys \in Orders(getKeys(Begin)) :
          Return(clear(Begin, cacheKeys), "clear", NoKey, "", TRUE, Undefined)
    /\ EndRun
    /\ UNCHANGED changeEmitters

\* The promise clear() returned settles.  clear() has no await: the promise
\* is resolved when the call returns, and its reactions run no code of the class.
ClearSettles ==
    /\ last.op = "clear"
    /\ Return(Begin, "clearSettled", NoKey, "", TRUE, Undefined)
    /\ EndRun
    /\ UNCHANGED changeEmitters

SetCache(c) ==
    /\ Return(setCache(Begin, c), "setCache", NoKey, "", TRUE, Undefined)
    /\ EndRun
    /\ UNCHANGED changeEmitters

SetInMemoryCache(inMemoryCache) ==
    /\ Return(setInMemoryCache(Begin, inMemoryCache),
              "setInMemoryCache", NoKey, "", TRUE, inMemoryCache)
    /\ EndRun
    /\ UNCHANGED changeEmitters

\* a typed getter returns its value and touches nothing
Got(name, kind, key, value) ==
    /\ Return(Begin, name, key, kind, value # Null, value)
    /\ EndRun
    /\ UNCHANGED changeEmitters

GetAccount(key) == Got("getAccount", "Account", key, getAccount(Begin, key))

GetIdTokenCredential(key) ==
    Got("getIdTokenCredential", "IdToken", key, getIdTokenCredential(Begin, key))

GetAccessTokenCredential(key) ==
    Got("getAccessTokenCredential", "AccessToken", key, getAccessTokenCredential(Begin, key))

GetRefreshTokenCredential(key) ==
    Got("getRefreshTokenCredential", "RefreshToken", key, getRefreshTokenCredential(Begin, key))

GetAppMetadata(key) ==
    Got("getAppMetadata", "AppMetadata", key, getAppMetadata(Begin, key))

GetServerTelemetry(key) ==
    Got("getServerTelemetry", "ServerTelemetry", key, getServerTelemetry(Begin, key))

GetAuthorityMetadata(key) ==
    Got("getAuthorityMetadata", "AuthorityMetadata", key, getAuthorityMetadata(Begin, key))

GetThrottlingCache(key) ==
    Got("getThrottlingCache", "Throttling", key, getThrottlingCache(Begin, key))

\* a call other than setItem and registerChangeEmitter ends here
Done(st, name, key, kind, ok, val) ==
    /\ Return(st, name, key, kind, ok, val)
    /\ EndRun
    /\ UNCHANGED changeEmitters

SetAccount(account) ==
    Done(setAccount(Begin, account), "setAccount",
         generateAccountKey(account), "Account", TRUE, account)

SetIdTokenCredential(idToken) ==
    Done(setIdTokenCredential(Begin, idToken), "setIdTokenCredential",
         generateCredentialKey(idToken), "IdToken", TRUE, idToken)

SetAccessTokenCredential(accessToken) ==
    Done(setAccessTokenCredential(Begin, accessToken), "setAccessTokenCredential",
         generateCredentialKey(accessToken), "AccessToken", TRUE, accessToken)

SetRefreshTokenCredential(refreshToken) ==
    Done(setRefreshTokenCredential(Begin, refreshToken), "setRefreshTokenCredential",
         generateCredentialKey(refreshToken), "RefreshToken", TRUE, refreshToken)

SetAppMetadata(appMetadata) ==
    Done(setAppMetadata(Begin, appMetadata), "setAppMetadata",
         generateAppMetadataKey(appMetadata), "AppMetadata", TRUE, appMetadata)

SetServerTelemetry(serverTelemetryKey, serverTelemetry) ==
    Done(setServerTelemetry(Begin, serverTelemetryKey, serverTelemetry),
         "setServerTelemetry", serverTelemetryKey, "ServerTelemetry", TRUE, serverTelemetry)

SetAuthorityMetadata(key, metadata) ==
    Done(setAuthorityMetadata(Begin, key, metadata),
         "setAuthorityMetadata", key, "AuthorityMetadata", TRUE, metadata)

SetThrottlingCache(throttlingCacheKey, throttlingCache) ==
    Done(setThrottlingCache(Begin, throttlingCacheKey, throttlingCache),
         "setThrottlingCache", throttlingCacheKey, "Throttling", TRUE, throttlingCache)

GetInMemoryCache ==
    Done(Begin, "getInMemoryCache", NoKey, "", TRUE, getInMemoryCache(Begin))

GetAccountKeys ==
    Done(Begin, "getAccountKeys", NoKey, "", TRUE, getAccountKeys(Begin))

GetAuthorityMetadataKeys ==
    Done(Begin, "getAuthorityMetadataKeys", NoKey, "", TRUE, getAuthorityMetadataKeys(Begin))

\* generateJsonCache that also notifies the change emitters
GenerateJsonCacheNotifying(inMemoryCache, order) ==
    Done(emitChange(Begin), "generateJsonCache", NoKey, "", TRUE,
         [view |-> inMemoryCache, json |-> generateJsonCache(inMemoryCache, order)])

GenerateJsonCache(inMemoryCache, order) ==
    Done(Begin, "generateJsonCache", NoKey, "", TRUE,
         [view |-> inMemoryCache, json |-> generateJsonCache(inMemoryCache, order)])

GenerateInMemoryCache(cacheBlob) ==
    Done(Begin, "generateInMemoryCache", NoKey, "", TRUE,
         [blob |-> cacheBlob, view |-> generateInMemoryCache(cacheBlob)])

GetTokenKeys ==
    Done(Begin, "getTokenKeys", NoKey, "", TRUE, getTokenKeys(Begin))

\* the call before this one, when it was a repair with the same credential
PreviousRepair(credential) ==
    IF last.op = "updateCredentialCacheKey" /\ last.val.credential = credential
    THEN [key |-> last.key, result |-> last.val.result]
    ELSE [key |-> NoKey, result |-> NoKey]

UpdateCredentialCacheKey(currentCacheKey, credential) ==
    LET r == updateCredentialCacheKey(Begin, currentCacheKey, credential)
    IN  Done(r.st, "updateCredentialCacheKey", currentCacheKey, credential.shape,
             r.result # currentCacheKey,
             [credential |-> credential, result |-> r.result,
              previous |-> PreviousRepair(credential)])

----------------------------------------------------------------------------
(* PerformanceClient calls *)

\* the record of a call: its name, its arguments, what it returned and the
\* callback invocations it made
Called(op, args, result, invoked) ==
    [op |-> op, args |-> args, result |-> result, invoked |-> invoked]

\* the client state and the record a finished call leaves
Returned(pc, op, args, result) ==
    /\ callbacks' = pc.callbacks
    /\ eventsByCorrelationId' = pc.eventsByCorrelationId
    /\ preQueueTimeByCorrelationId' = pc.preQueueTimeByCorrelationId
    /\ queueMeasurements' = pc.queueMeasurements
    /\ generated' = pc.generated
    /\ perf' = Called(op, args, result, pc.invoked)
    /\ UNCHANGED <<cache, changeEmitters, called, last, run, runCalls, queueTime>>
    /\ UNCHANGED fetchVars

\* all queue measurements held, over every correlation id
RECURSIVE TotalQueued(_)
TotalQueued(m) ==
    IF DOMAIN m = {} THEN 0
    ELSE LET correlationId == CHOOSE c \in DOMAIN m : TRUE
         IN  Len(m[correlationId]) + TotalQueued(Del(m, correlationId))

SetPreQueueTime(eventName, correlationId, time) ==
    /\ Returned(setPreQueueTime(This, eventName, correlationId, time),
                "setPreQueueTime",
                [eventName |-> eventName, correlationId |-> correlationId, time |-> time],
                NotGiven)
    /\ UNCHANGED measurements

GetPreQueueTime(eventName, correlationId) ==
    /\ Returned(This, "getPreQueueTime",
                [eventName |-> eventName, correlationId |-> correlationId],
                getPreQueueTime(This, eventName, correlationId))
    /\ UNCHANGED measurements

AddQueueMeasurement(eventName, correlationId, queuedTime, manuallyCompleted) ==
    /\ TotalQueued(queueMeasurements) < MaxQueued
    /\ Returned(addQueueMeasurement(This, eventName, correlationId, queuedTime,
                                    manuallyCompleted),
                "addQueueMeasurement",
                [eventName |-> eventName, correlationId |-> correlationId,
                 queueTime |-> queuedTime, manuallyCompleted |-> manuallyCompleted],
                NotGiven)
    /\ UNCHANGED measurements

\* startMeasurement(measureName, correlationId?): the caller keeps what was
\* returned; `root` notes which event was the root of the correlation id
\* then, `started` how many ids had been generated by then
StartMeasurement(measureName, correlationId) ==
    LET started == startMeasurement(This, measureName, correlationId)
    IN  /\ started.pc.generated <= MaxIds
        /\ Returned(started.pc, "startMeasurement",
                    [measureName |-> measureName, correlationId |-> correlationId],
                    Given(started.event))
        /\ measurements' =
              Put(measurements, started.event.eventId,
                  [event |-> started.event,
                   started |-> started.pc.generated,
                   ended |-> FALSE,
                   root |-> started.pc.eventsByCorrelationId[
                                started.event.correlationId].eventId])

\* the endMeasurement() closure of a returned measurement, whose
\* flushMeasurement() yields durationMs
EndMeasurement(eventId, durationMs) ==
    /\ eventId \in DOMAIN measurements
    /\ LET ending == endMeasurement(This, measurements[eventId].event, durationMs)
       IN  Returned(ending.pc, "endMeasurement",
                    [event |-> measurements[eventId].event, durationMs |-> durationMs],
                    ending.result)
    /\ measurements' = [measurements EXCEPT ![eventId].ended = TRUE]

\* the discardMeasurement() closure of a returned measurement
DiscardMeasurement(eventId) ==
    /\ eventId \in DOMAIN measurements
    /\ Returned(discardMeasurements(This, measurements[eventId].event.correlationId),
                "discardMeasurement",
                [event |-> measurements[eventId].event],
                NotGiven)
    /\ UNCHANGED measurements

AddPerformanceCallback(callback) ==
    /\ generated < MaxIds
    /\ LET added == addPerformanceCallback(This, callback)
       IN  Returned(added.pc, "addPerformanceCallback",
                    [callback |-> callback], Given(added.result))
    /\ UNCHANGED measurements

RemovePerformanceCallback(callbackId) ==
    /\ LET removed == removePerformanceCallback(This, callbackId)
       IN  Returned(removed.pc, "removePerformanceCallback",
                    [callbackId |-> callbackId], Given(removed.result))
    /\ UNCHANGED measurements

----------------------------------------------------------------------------
(* FetchClient *)

\* Header names a caller passes: two spellings of one name, and one that
\* Headers.append rejects.
HeaderNames == {"Accept", "accept", "bad name"}

toLowerCase(name) == IF name = "Accept" THEN "accept" ELSE name

\* new Headers() and headers.append(key, value): names are lower-cased and a
\* value appended to a name already present is joined to it; an invalid
\* name throws
EmptyHeaders == [threw |-> FALSE, list |-> EmptyMap]

append(headers, key, value) ==
    IF headers.threw \/ key = "bad name"
    THEN [headers EXCEPT !.threw = TRUE]
    ELSE [headers EXCEPT !.list =
            Put(@, toLowerCase(key),
                IF toLowerCase(key) \in DOMAIN @
                THEN @[toLowerCase(key)] \o ", " \o value
                ELSE value)]

RECURSIVE appendEach(_, _)
appendEach(headers, optionsHeaders) ==
    IF optionsHeaders = <<>> THEN headers
    ELSE appendEach(append(headers, Head(optionsHeaders)[1], Head(optionsHeaders)[2]),
                    Tail(optionsHeaders))

\* getFetchHeaders(options?), where options.headers lists its <<key, value>>
\* pairs in the order of Object.keys
getFetchHeaders(options) ==
    IF ~(options # NotGiven /\ options[1].headers # NotGiven)
    THEN EmptyHeaders
    ELSE appendEach(EmptyHeaders, options[1].headers[1])

\* getHeaderDict(headers): Headers.forEach visits every <<value, key>> of the
\* response once, and each is entered in the dictionary
RECURSIVE getHeaderDict(_)
getHeaderDict(headers) ==
    IF headers = <<>> THEN EmptyMap
    ELSE Put(getHeaderDict(SubSeq(headers, 1, Len(headers) - 1)),
             headers[Len(headers)][2], headers[Len(headers)][1])

\* JSON texts are sequences of the tokens "[", "]" and "1"; a JSON value is
\* the number 1 or an array, and the arrays of these texts have at most one
\* element.  A parsed value is the nesting depth and the innermost number.
Tokens == {"[", "]", "1"}

RECURSIVE Opening(_)
Opening(text) ==
    IF text # <<>> /\ Head(text) = "[" THEN 1 + Opening(Tail(text)) ELSE 0

\* response.json(): reads the body and parses it; fails when the body cannot
\* be read or is not a JSON text
json(body) ==
    IF ~body.readable
    THEN [ok |-> FALSE, value |-> NotGiven]
    ELSE LET text == body.text
             depth == Opening(text)
             rest == SubSeq(text, depth + 1, Len(text))
             number == rest # <<>> /\ Head(rest) = "1"
             closing == IF number THEN Tail(rest) ELSE rest
         IN  IF /\ Len(closing) = depth
                /\ \A i \in DOMAIN closing : closing[i] = "]"
                /\ (depth > 0 \/ number)
             THEN [ok |-> TRUE,
                   value |-> Given([depth |-> depth,
                                    number |-> IF number THEN Given(1) ELSE NotGiven])]
             ELSE [ok |-> FALSE, value |-> NotGiven]

\* the errors and the response a request ends in
Thrown(error) == [threw |-> TRUE, error |-> error, response |-> NotGiven]
Resolved(response) == [threw |-> FALSE, error |-> "", response |-> Given(response)]

\* the catch block of sendGetRequestAsync
getRequestFailed(navigatorOnLine) ==
    IF navigatorOnLine THEN Thrown("createGetRequestFailedError")
    ELSE Thrown("createNoNetworkConnectivityError")

\* the catch block of sendPostRequestAsync with that of the GET request
postRequestFailedAsGet(navigatorOnLine) ==
    IF navigatorOnLine THEN Thrown("createGetRequestFailedError")
    ELSE Thrown("createNoNetworkConnectivityError")

\* the catch block of sendPostRequestAsync
postRequestFailed(navigatorOnLine) ==
    IF navigatorOnLine THEN Thrown("createPostRequestFailedError")
    ELSE Thrown("createNoNetworkConnectivityError")

\* the second try block of both requests, once response.json() has settled
parseResponse(response) ==
    LET body == json(response.body)
    IN  IF body.ok
        THEN Resolved([headers |-> getHeaderDict(response.headers),
                       body |-> body.value[1],
                       status |-> response.status])
        ELSE Thrown("createFailedToParseNetworkResponseError")

\* A request: what was handed to fetch, how far it got, the response fetch
\* resolved with, and what the returned promise settled to.
Request(phase, method, headers, body, response, outcome) ==
    [phase |-> phase, method |-> method, headers |-> headers, body |-> body,
     response |-> response, outcome |-> outcome]

Idle == Request("idle", "", EmptyMap, "", NotGiven, NotGiven)

FetchFrame ==
    /\ UNCHANGED <<cache, changeEmitters, called, last, run, runCalls, queueTime>>
    /\ UNCHANGED perfVars

\* sendGetRequestAsync(url, options?) up to its first await
SendGetRequestAsync(options) ==
    /\ request.phase \in {"idle", "settled"}
    /\ LET headers == getFetchHeaders(options)
       IN  request' =
              IF headers.threw
              THEN Request("settled", "GET", EmptyMap, "", NotGiven,
                           Given(getRequestFailed(onLine)))
              ELSE Request("fetching", "GET", headers.list, "", NotGiven, NotGiven)
    /\ UNCHANGED onLine
    /\ FetchFrame

\* sendPostRequestAsync(url, options?) up to its first await
SendPostRequestAsync(options) ==
    /\ request.phase \in {"idle", "settled"}
    /\ LET reqBody == IF options # NotGiven /\ options[1].body # NotGiven
                         /\ options[1].body[1] # ""
                      THEN options[1].body[1] ELSE ""
           headers == getFetchHeaders(options)
       IN  request' =
              IF headers.threw
              THEN Request("settled", "POST", EmptyMap, reqBody, NotGiven,
                           Given(postRequestFailed(onLine)))
              ELSE Request("fetching", "POST", headers.list, reqBody, NotGiven, NotGiven)
    /\ UNCHANGED onLine
    /\ FetchFrame

\* fetch() rejects: the catch block reads navigator.onLine and throws
FetchRejects ==
    /\ request.phase = "fetching"
    /\ request' = [request EXCEPT
          !.phase = "settled",
          !.outcome = Given(IF request.method = "GET" THEN getRequestFailed(onLine)
                            ELSE postRequestFailed(onLine))]
    /\ UNCHANGED onLine
    /\ FetchFrame

\* fetch() resolves with a response; the request awaits response.json()
FetchResolves(response) ==
    /\ request.phase = "fetching"
    /\ request' = [request EXCEPT !.phase = "parsing", !.response = Given(response)]
    /\ UNCHANGED onLine
    /\ FetchFrame

\* response.json() settles and the request returns or throws
JsonSettles ==
    /\ request.phase = "parsing"
    /\ request' = [request EXCEPT
          !.phase = "settled",
          !.outcome = Given(parseResponse(request.response[1]))]
    /\ UNCHANGED onLine
    /\ FetchFrame

\* the browser goes offline or comes back online
NavigatorChanges ==
    /\ onLine' = ~onLine
    /\ UNCHANGED request
    /\ FetchFrame

----------------------------------------------------------------------------
(* Specifications *)

\* a call of calculateQueuedTime that has not returned yet
Calling(preQueueTime, currentTime) ==
    [preQueueTime |-> preQueueTime, currentTime |-> currentTime,
     returned |-> FALSE, result |-> 0]

\* a new NodeStorage
NewStorage ==
    /\ cache = EmptyMap
    /\ changeEmitters = <<>>
    /\ called = <<>>
    /\ last = Op("new", NoKey, "", TRUE, Undefined, 0)
    /\ run = 0
    /\ runCalls = 0

\* a new PerformanceClient: four empty maps, no id generated, nothing called
NewPerformanceClient ==
    /\ callbacks = <<>>
    /\ eventsByCorrelationId = EmptyMap
    /\ preQueueTimeByCorrelationId = EmptyMap
    /\ queueMeasurements = EmptyMap
    /\ generated = 0
    /\ measurements = EmptyMap
    /\ perf = Called("new", NotGiven, NotGiven, <<>>)

\* a FetchClient that has sent nothing, in a browser that is online
NewFetchClient ==
    /\ onLine = TRUE
    /\ request = Idle

Init ==
    /\ NewStorage
    /\ queueTime = Calling(0, 0)
    /\ NewPerformanceClient
    /\ NewFetchClient

\* maps handed to setCache
CacheInputs ==
    {EmptyMap} \cup
    {Put(EmptyMap, key, value) : key \in {<<"cred", 1>>, <<"cred", 2>>},
                                 value \in {EmptyString, Instance("Account", 1)}} \cup
    {Put(Put(EmptyMap, <<"cred", 1>>, value), <<"server-telemetry", 1>>, PlainObject) :
        value \in {EmptyString, Instance("Account", 1)}}

\* bucketed views handed to setInMemoryCache, besides the view
\* getInMemoryCache() returns
ViewInputs ==
    {InMemoryCache(accounts, idTokens, EmptyMap, EmptyMap, EmptyMap) :
        accounts \in {EmptyMap, Put(EmptyMap, <<"cred", 1>>, Instance("Account", 1))},
        idTokens \in {EmptyMap, Put(EmptyMap, <<"cred", 1>>, Instance("IdToken", 1)),
                      Put(EmptyMap, <<"cred", 2>>, Instance("IdToken", 1))}}

Next ==
    \/ \E func \in Callbacks : RegisterChangeEmitter(func)
    \/ \E key \in FlatKeys, value \in FlatValues : SetItem(key, value)
    \/ \E key \in FlatKeys : RemoveItem(key)
    \/ Clear
    \/ ClearSettles
    \/ \E c \in CacheInputs : SetCache(c)
    \/ \E inMemoryCache \in ViewInputs \cup {getInMemoryCache(Begin)} :
          SetInMemoryCache(inMemoryCache)

\* The flat store and its change notification.
Spec == Init /\ [][Next]_vars

\* Keys and values of the typed-accessor specification: one key of every
\* prefix, one entry of every kind, an unrecognised object and "".
TypedKeys == {<<prefix, 1>> : prefix \in KeyPrefixes}
TypedValues == {Instance(K, 1) : K \in Kinds} \cup {PlainObject, EmptyString}

NextTyped ==
    \/ \E key \in TypedKeys, value \in TypedValues :
          /\ containsKey(Begin, key) \/ Cardinality(getKeys(Begin)) < MaxEntries
          /\ SetItem(key, value)
    \/ \E key \in TypedKeys : RemoveItem(key)
    \/ \E key \in TypedKeys : GetAccount(key)
    \/ \E key \in TypedKeys : GetIdTokenCredential(key)
    \/ \E key \in TypedKeys : GetAccessTokenCredential(key)
    \/ \E key \in TypedKeys : GetRefreshTokenCredential(key)
    \/ \E key \in TypedKeys : GetAppMetadata(key)
    \/ \E key \in TypedKeys : GetServerTelemetry(key)
    \/ \E key \in TypedKeys : GetAuthorityMetadata(key)
    \/ \E key \in TypedKeys : GetThrottlingCache(key)
    \/ GetAuthorityMetadataKeys

\* The typed accessors over a store of every kind of entry.
SpecTyped == Init /\ [][NextTyped]_vars

\* Entities of the typed-setter specification: two accounts with one key
\* and a third with another; one entity of every other kind.
Accounts == {Instance("Account", 1), Instance("Account", 11), Instance("Account", 2)}
IdTokens == {Instance("IdToken", 1)}
AccessTokens == {Instance("AccessToken", 1)}
RefreshTokens == {Instance("RefreshToken", 1)}
AppMetadatas == {Instance("AppMetadata", 1)}

\* Keys handed to the setters that take their key from the caller: the
\* kind's own key and a key without its prefix.
KeyedKeys(prefix) == {<<prefix, 1>>, <<"cred", 1>>}

\* Entries written from outside: of no kind, and account-shaped without the class.
ForeignValues == {PlainObject, Shaped("Account", 1)}

NextBuckets ==
    \/ \E account \in Accounts : SetAccount(account)
    \/ \E idToken \in IdTokens : SetIdTokenCredential(idToken)
    \/ \E accessToken \in AccessTokens : SetAccessTokenCredential(accessToken)
    \/ \E refreshToken \in RefreshTokens : SetRefreshTokenCredential(refreshToken)
    \/ \E appMetadata \in AppMetadatas : SetAppMetadata(appMetadata)
    \/ \E key \in KeyedKeys("server-telemetry") :
          SetServerTelemetry(key, Instance("ServerTelemetry", 1))
    \/ \E key \in KeyedKeys("authority-metadata") :
          SetAuthorityMetadata(key, Instance("AuthorityMetadata", 1))
    \/ \E key \in KeyedKeys("throttling") :
          SetThrottlingCache(key, Instance("Throttling", 1))
    \/ \E value \in ForeignValues : SetItem(<<"cred", 1>>, value)
    \/ GetInMemoryCache
    \/ GetAccountKeys
    \/ GetTokenKeys

\* The typed setters and the bucketed view, from an empty store.
SpecBuckets == Init /\ [][NextBuckets]_vars

\* Keys, stored values and credentials of the key-repair specification: an
\* outdated key and two current ones; "" and two id tokens with one key.
RepairKeys == {<<"cred", 1>>, <<"idtoken", 1>>, <<"idtoken", 2>>}
RepairValues == {EmptyString, Instance("IdToken", 1), Instance("IdToken", 11)}
Credentials == {Instance("IdToken", 1), Instance("IdToken", 11), Instance("IdToken", 2)}

NextRepair ==
    \/ \E func \in Callbacks : RegisterChangeEmitter(func)
    \/ \E key \in RepairKeys, value \in RepairValues : SetItem(key, value)
    \/ \E key \in RepairKeys : RemoveItem(key)
    \/ \E key \in RepairKeys, credential \in Credentials :
          UpdateCredentialCacheKey(key, credential)

\* Key repair over a store of credentials, with change callbacks.
SpecRepair == Init /\ [][NextRepair]_vars

\* Views handed to the codec: accounts of the class, an account-shaped
\* object, an id token in the accounts bucket; one id token; one app metadata.
CodecViews ==
    {InMemoryCache(accounts, idTokens, EmptyMap, EmptyMap, appMetadata) :
        accounts \in {EmptyMap,
                      Put(EmptyMap, <<"account", 1>>, Instance("Account", 1)),
                      Put(Put(EmptyMap, <<"account", 1>>, Instance("Account", 1)),
                          <<"account", 2>>, Instance("Account", 2)),
                      Put(EmptyMap, <<"account", 1>>, Shaped("Account", 1)),
                      Put(EmptyMap, <<"account", 1>>, Instance("IdToken", 1))},
        idTokens \in {EmptyMap, Put(EmptyMap, <<"idtoken", 1>>, Instance("IdToken", 1))},
        appMetadata \in {EmptyMap,
                         Put(EmptyMap, <<"appmetadata", 1>>, Instance("AppMetadata", 1))}}

\* Blobs handed to the codec: the empty one, and the text of the document
\* generateJsonCache has just returned.
CodecBlobs ==
    {EmptyBlob} \cup
    (IF last.op = "generateJsonCache" THEN {JSONstringify(last.val.json)} ELSE {})

NextCodec ==
    \/ \E func \in Callbacks : RegisterChangeEmitter(func)
    \/ \E value \in {PlainObject, Instance("Account", 1)} : SetItem(<<"cred", 1>>, value)
    \/ \E inMemoryCache \in CodecViews :
          \E order \in Orders(ViewKeys(inMemoryCache)) :
             GenerateJsonCache(inMemoryCache, order)
    \/ \E cacheBlob \in CodecBlobs : GenerateInMemoryCache(cacheBlob)

\* The static codec functions, next to an engine with callbacks.
SpecCodec == Init /\ [][NextCodec]_vars

\* Times handed to calculateQueuedTime: whole milliseconds, from below the
\* least positive time to MaxTime.
Times == -1..MaxTime

CalculateQueuedTime ==
    /\ ~queueTime.returned
    /\ queueTime' = [queueTime EXCEPT
          !.returned = TRUE,
          !.result = calculateQueuedTime(queueTime.preQueueTime, queueTime.currentTime)]
    /\ UNCHANGED <<cache, changeEmitters, called, last, run, runCalls>>
    /\ UNCHANGED <<perfVars, fetchVars>>

InitQueued ==
    /\ NewStorage
    /\ NewPerformanceClient
    /\ NewFetchClient
    /\ \E preQueueTime \in Times, currentTime \in Times :
          queueTime = Calling(preQueueTime, currentTime)

NextQueued == CalculateQueuedTime

\* calculateQueuedTime applied to every pair of times.
SpecQueued == InitQueued /\ [][NextQueued]_vars

\* Correlation ids a caller passes: none, the empty string, two requests.
CorrelationIds == {NotGiven, Given(""), Given("c1"), Given("c2")}

\* Queue times a caller passes: none, none elapsed, some elapsed.
QueueTimes == {NotGiven, Given(0), Given(2)}

NextQueue ==
    \/ \E eventName \in PerformanceEvents, correlationId \in CorrelationIds :
          SetPreQueueTime(eventName, correlationId, 1)
    \/ \E eventName \in PerformanceEvents, correlationId \in {"c1", "c2"} :
          GetPreQueueTime(eventName, correlationId)
    \/ \E eventName \in PerformanceEvents, correlationId \in CorrelationIds,
          queuedTime \in QueueTimes :
          AddQueueMeasurement(eventName, correlationId, queuedTime, NotGiven)

\* Pre-queue times and queue measurements of two requests.
SpecQueue == Init /\ [][NextQueue]_vars

\* every id generateId can have returned
GeneratedIds == {"id" \o ToString(i) : i \in 1..MaxIds}

\* what flushMeasurement() returns, in half milliseconds: null (no
\* measurement was taken) or 1.5 ms
Durations == {NotGiven, Given(3)}

\* queue measurements a caller records: none elapsed, some elapsed, and
\* some elapsed before the measurement was completed manually
QueueInputs == {<<Given(0), NotGiven>>, <<Given(2), NotGiven>>, <<Given(2), Given(TRUE)>>}

NextMeasure ==
    \/ \E correlationId \in {NotGiven, Given("c1")} :
          StartMeasurement("SilentRefreshClientAcquireToken", correlationId)
    \/ \E eventId \in GeneratedIds, durationMs \in Durations :
          EndMeasurement(eventId, durationMs)
    \/ \E eventId \in GeneratedIds : DiscardMeasurement(eventId)
    \/ \E input \in QueueInputs :
          AddQueueMeasurement("InitializeBaseRequest", Given("c1"), input[1], input[2])
    \/ SetPreQueueTime("InitializeBaseRequest", Given("c1"), 1)
    \/ AddPerformanceCallback("cb1")

\* Measurements and queue measurements of one client, with a callback.
SpecMeasure == Init /\ [][NextMeasure]_vars

NextCallbacks ==
    \/ \E callback \in Callbacks : AddPerformanceCallback(callback)
    \/ \E callbackId \in GeneratedIds : RemovePerformanceCallback(callbackId)
    \/ StartMeasurement("SilentRefreshClientAcquireToken", Given("c1"))
    \/ \E eventId \in GeneratedIds : EndMeasurement(eventId, Given(3))

\* Callbacks registered, removed and called with the events of a client.
SpecCallbacks == Init /\ [][NextCallbacks]_vars

\* options handed to a request: none, a body, headers in two spellings, an
\* invalid header name
RequestOptions ==
    {NotGiven,
     Given([headers |-> NotGiven, body |-> Given("")]),
     Given([headers |-> NotGiven, body |-> Given("grant_type=refresh_token")]),
     Given([headers |-> Given(<<<<"Accept", "a">>, <<"accept", "b">>>>), body |-> NotGiven]),
     Given([headers |-> Given(<<<<"bad name", "a">>>>), body |-> NotGiven])}

\* every text of at most MaxBody tokens
Texts == UNION {[1..n -> Tokens] : n \in 0..MaxBody}

\* responses fetch resolves with: a status, the headers as forEach visits
\* them, and a body that is a text or cannot be read
Responses ==
    {[status |-> status, headers |-> headers, body |-> body] :
        status \in {200, 400},
        headers \in {<<>>, <<<<"application/json", "content-type">>, <<"1", "x-ms-request-id">>>>},
        body \in {[readable |-> TRUE, text |-> text] : text \in Texts} \cup
                 {[readable |-> FALSE, text |-> <<>>]}}

NextFetch ==
    \/ \E options \in RequestOptions : SendGetRequestAsync(options)
    \/ \E options \in RequestOptions : SendPostRequestAsync(options)
    \/ FetchRejects
    \/ \E response \in Responses : FetchResolves(response)
    \/ JsonSettles
    \/ NavigatorChanges

\* One request at a time through a FetchClient, in a browser that goes
\* offline and online.
SpecFetch == Init /\ [][NextFetch]_vars

----------------------------------------------------------------------------
(* Properties *)

\* the store as a caller reads it now, and as it reads it after the step
Now == [cache |-> cache, log |-> <<>>, emits |-> 0]
After == [cache |-> cache', log |-> <<>>, emits |-> 0]

GetterNames == {"getAccount", "getIdTokenCredential", "getAccessTokenCredential",
                "getRefreshTokenCredential", "getAppMetadata", "getServerTelemetry",
                "getAuthorityMetadata", "getThrottlingCache"}

\* the last operation was a call that, per its contract, notifies
Mutated ==
    \/ last.op \in {"setCache", "setItem", "setInMemoryCache", "clear"}
    \/ last.op = "removeItem" /\ last.ok

NotifiedAfterCommit ==
    Mutated =>
        /\ last.emits >= 1
        \* every registered callback ran, and ran with the committed store to read
        /\ \A i \in 1..Len(changeEmitters) :
              \E j \in 1..Len(called) :
                 called[j].cb = changeEmitters[i] /\ called[j].seen = cache
        \* the final invocation came after everything the call did
        /\ changeEmitters # <<>> => called[Len(called)].seen = cache
        \* a call that makes one mutation never shows a callback the old store
        /\ last.op # "clear" => \A j \in 1..Len(called) : called[j].seen = cache
        \* clear's callbacks see the store shrink, removal by removal
        /\ \A j \in 1..Len(called) - 1 :
              DOMAIN called[j + 1].seen \subseteq DOMAIN called[j].seen

NoSilentChange ==
    cache' # cache => last'.emits >= 1 /\ Len(called') >= Len(changeEmitters')

C2_NotificationCount == Len(changeEmitters) = 1 => runCalls = run

C2_Witness ==
    /\ Len(changeEmitters) = 1
    /\ run >= 2
    /\ runCalls = run
    /\ Cardinality(DOMAIN cache) = 1

InRegistrationOrder ==
    /\ Len(called) = last.emits * Len(changeEmitters)
    /\ \A j \in 1..Len(called) :
          called[j].cb = changeEmitters[((j - 1) % Len(changeEmitters)) + 1]

NeverUnregistered ==
    /\ Len(changeEmitters') >= Len(changeEmitters)
    /\ SubSeq(changeEmitters', 1, Len(changeEmitters)) = changeEmitters

\* C3: every emission invokes all the callbacks registered so far, in
\* registration order, and a registered callback stays registered.
C3_RegistrationOrder == []InRegistrationOrder /\ [][NeverUnregistered]_vars

C3_Witness ==
    /\ Len(changeEmitters) = 2
    /\ changeEmitters[1] # changeEmitters[2]
    /\ last.emits >= 2
    /\ Len(called) = 2 * last.emits

\* C4: removeItem(key) returns true if and only if the key was in the store
\* just before the call, whatever its value; after a true return the key is
\* gone and every other key keeps its value.
C4_RemoveIffPresent ==
    [][last'.op = "removeItem" =>
          /\ last'.ok <=> containsKey(Now, last'.key)
          /\ last'.ok => /\ ~containsKey(After, last'.key)
                         /\ cache' = Del(cache, last'.key)]_vars

\* C5: removeItem on a key that is not in the store returns false, invokes
\* no callback and leaves the store unchanged.
C5_RemoveAbsent ==
    [][(last'.op = "removeItem" /\ ~containsKey(Now, last'.key)) =>
          /\ ~last'.ok
          /\ cache' = cache
          /\ called' = <<>>
          /\ last'.emits = 0]_vars

C5_Witness ==
    /\ last.op = "removeItem"
    /\ ~last.ok
    /\ ~containsKey(Now, last.key)
    /\ changeEmitters # <<>>
    /\ cache # EmptyMap

\* C6: after clear() the store has no key left, whatever was stored.
C6_ClearEmpties == last.op = "clear" => getKeys(Now) = {}

\* C7: with one registered callback, clear() invokes it exactly once, after
\* all removals.
C7_ClearNotifiesOnce ==
    (last.op = "clear" /\ Len(changeEmitters) = 1) =>
        /\ Len(called) = 1
        /\ called[1].seen = cache

\* C8: setItem(k, v) makes getItem(k) return v and containsKey(k) true,
\* replaces an earlier value under k without a second entry for k, and
\* leaves every other key and its value as they were.
C8_SetItem ==
    [][last'.op = "setItem" =>
          /\ getItem(After, last'.key) = last'.val
          /\ containsKey(After, last'.key)
          /\ getKeys(After) = getKeys(Now) \cup {last'.key}
          /\ \A k \in getKeys(Now) \ {last'.key} : getItem(After, k) = getItem(Now, k)]_vars

C8_Witness ==
    /\ last.op = "setItem"
    /\ getItem(Now, last.key) = last.val
    /\ Cardinality(getKeys(Now)) >= 2

GetterResult ==
    last.op \in GetterNames =>
        LET stored == containsKey(Now, last.key)
            accepted == stored /\ Accepts(last.kind, last.key, cache[last.key])
        IN  /\ last.val # Null => accepted /\ last.val = cache[last.key]
            /\ ~accepted => last.val = Null
            /\ last.ok <=> last.val # Null

GetterReadsOnly ==
    last'.op \in GetterNames =>
        cache' = cache /\ called' = <<>> /\ last'.emits = 0
                       /\ changeEmitters' = changeEmitters

\* C9: a typed getter returns the stored value only when the key is there
\* and the kind's classifier accepts the value; an absent key and a value of
\* another kind both give null; no typed getter modifies the store.
C9_TypedGetter == []GetterResult /\ [][GetterReadsOnly]_vars

C9_Witness ==
    /\ last.op \in GetterNames
    /\ containsKey(Now, last.key)
    /\ Truthy(cache[last.key])
    /\ last.val = Null

TypedSetterNames == {"setAccount", "setIdTokenCredential", "setAccessTokenCredential",
                     "setRefreshTokenCredential", "setAppMetadata"}

\* the key generator of `kind`
GeneratedKey(kind, entity) ==
    CASE kind = "Account" -> generateAccountKey(entity)
      [] kind = "AppMetadata" -> generateAppMetadataKey(entity)
      [] OTHER -> generateCredentialKey(entity)

\* C11: setK(entity) stores the entity under genK(entity) and under no other
\* key, replacing what was there, and getK(genK(entity)) then returns it.
C11_TypedSetter ==
    [][last'.op \in TypedSetterNames =>
          LET key == GeneratedKey(last'.kind, last'.val)
          IN  /\ cache' = Put(cache, key, last'.val)
              /\ TypedGet(last'.kind, After, key) = last'.val]_vars

C11_Witness ==
    /\ last.op = "setAccount"
    /\ last.val = Instance("Account", 11)
    /\ getAccount(Now, generateAccountKey(last.val)) = last.val
    /\ getAppMetadata(Now, generateAppMetadataKey(Instance("AppMetadata", 1))) # Null

\* the keys of the store that a key generator of the given lead made
KeysLed(lead) == {key \in getKeys(Now) : key[1] = lead}

KeysOfWhatWasSet ==
    /\ getAccountKeys(Now) = KeysLed("account")
    /\ getTokenKeys(Now) = [idToken |-> KeysLed("idtoken"),
                            accessToken |-> KeysLed("accesstoken"),
                            refreshToken |-> KeysLed("refreshtoken")]

KeysGrowBySetter ==
    last'.op \in TypedSetterNames =>
        LET key == GeneratedKey(last'.kind, last'.val)
            accounts == getAccountKeys(Now)
            tokens == getTokenKeys(Now)
        IN  /\ getAccountKeys(After) =
                  IF last'.op = "setAccount" THEN accounts \cup {key} ELSE accounts
            /\ getTokenKeys(After) =
                  CASE last'.op = "setIdTokenCredential" ->
                          [tokens EXCEPT !.idToken = @ \cup {key}]
                    [] last'.op = "setAccessTokenCredential" ->
                          [tokens EXCEPT !.accessToken = @ \cup {key}]
                    [] last'.op = "setRefreshTokenCredential" ->
                          [tokens EXCEPT !.refreshToken = @ \cup {key}]
                    [] OTHER -> tokens

\* C12: from an empty store, getAccountKeys() is exactly the set of keys
\* genAccount(entity) of the accounts that were set, and getTokenKeys() holds
\* the keys of the stored id, access and refresh tokens.
C12_AccountAndTokenKeys == []KeysOfWhatWasSet /\ [][KeysGrowBySetter]_vars

C12_Witness ==
    /\ last.op = "getAccountKeys"
    /\ last.val = {generateAccountKey(Instance("Account", 1)),
                   generateAccountKey(Instance("Account", 2))}
    /\ getTokenKeys(Now).idToken = {generateCredentialKey(Instance("IdToken", 1))}
    /\ getTokenKeys(Now).refreshToken # {}

\* the place in BucketOrder of the first kind whose class the value is an
\* instance of; 0 when there is none
FirstAccepting(value) ==
    LET hits == {i \in DOMAIN BucketOrder : InstanceOf(value, BucketOrder[i])}
    IN  IF hits = {} THEN 0 ELSE CHOOSE i \in hits : \A j \in hits : i <= j

BucketedByFirstKind ==
    LET view == getInMemoryCache(Now)
    IN  \A i \in DOMAIN BucketNames :
           /\ DOMAIN view[BucketNames[i]] =
                 {key \in getKeys(Now) : FirstAccepting(cache[key]) = i}
           /\ \A key \in DOMAIN view[BucketNames[i]] :
                 view[BucketNames[i]][key] = getCache(Now)[key]

ViewReadsOnly ==
    last'.op = "getInMemoryCache" =>
        /\ cache' = cache
        /\ called' = <<>>
        /\ last'.val = getInMemoryCache(Now)

KeyedSetterNames == {"setServerTelemetry", "setThrottlingCache", "setAuthorityMetadata"}

ReservedPrefix(kind) ==
    CASE kind = "ServerTelemetry" -> "server-telemetry"
      [] kind = "Throttling" -> "throttling"
      [] kind = "AuthorityMetadata" -> "authority-metadata"

\* the entry of the call that just returned is in the flat store and in no
\* bucket or key list
OnlyInFlatStore ==
    LET view == getInMemoryCache(Now)
        tokens == getTokenKeys(Now)
    IN  /\ getItem(Now, last.key) = last.val
        /\ \A i \in DOMAIN BucketNames : last.key \notin DOMAIN view[BucketNames[i]]
        /\ last.key \notin getAccountKeys(Now)
        /\ last.key \notin (tokens.idToken \cup tokens.accessToken \cup tokens.refreshToken)

\* C14 as stated: an entry written by setServerTelemetry, setThrottlingCache
\* or setAuthorityMetadata is in no bucket and no key list, is in the flat
\* store, and is returned by its own typed getter.
C14_KeyedEntries ==
    last.op \in KeyedSetterNames =>
        /\ OnlyInFlatStore
        /\ TypedGet(last.kind, Now, last.key) = last.val

\* C14 as amended: the typed getter returns the entry when the key it was
\* written under carries the kind's reserved prefix.
C14_KeyedEntriesUnderOwnKey ==
    last.op \in KeyedSetterNames =>
        /\ OnlyInFlatStore
        /\ last.key[1] = ReservedPrefix(last.kind) =>
              TypedGet(last.kind, Now, last.key) = last.val

C14_Witness ==
    /\ last.op = "setServerTelemetry"
    /\ last.key[1] = "server-telemetry"
    /\ getServerTelemetry(Now, last.key) = last.val
    /\ getAccountKeys(Now) # {}
    /\ last.key \notin getAccountKeys(Now)

\* what the merge leaves under a key: the entry of the latest bucket that
\* has the key, else the entry of the store
LatestOf(view, store, key) ==
    IF key \in DOMAIN view.appMetadata THEN view.appMetadata[key]
    ELSE IF key \in DOMAIN view.refreshTokens THEN view.refreshTokens[key]
    ELSE IF key \in DOMAIN view.accessTokens THEN view.accessTokens[key]
    ELSE IF key \in DOMAIN view.idTokens THEN view.idTokens[key]
    ELSE IF key \in DOMAIN view.accounts THEN view.accounts[key]
    ELSE store[key]

\* C15: after setInMemoryCache(V) the flat store is the store merged with
\* V's buckets in the order accounts, idTokens, accessTokens, refreshTokens,
\* appMetadata: every bucket entry is there, it overwrites a store entry of
\* the same key, and of several buckets with one key the latest wins.
C15_SetInMemoryCache ==
    [][last'.op = "setInMemoryCache" =>
          /\ getKeys(After) = getKeys(Now) \cup
                UNION {DOMAIN last'.val[BucketNames[i]] : i \in DOMAIN BucketNames}
          /\ \A key \in getKeys(After) :
                getItem(After, key) = LatestOf(last'.val, cache, key)]_vars

C15_Witness ==
    /\ last.op = "setInMemoryCache"
    /\ <<"cred", 1>> \in DOMAIN last.val.accounts
    /\ <<"cred", 1>> \in DOMAIN last.val.idTokens
    /\ getItem(Now, <<"cred", 1>>) = last.val.idTokens[<<"cred", 1>>]
    /\ Cardinality(getKeys(Now)) >= 2

Repaired == last'.op = "updateCredentialCacheKey"

\* C16: updateCredentialCacheKey(oldKey, e) with genK(e) # oldKey and a value
\* stored under oldKey returns the new key; afterwards oldKey is gone, the
\* new key holds the value that was under oldKey, and no other key changed.
C16_RepairMoves ==
    [][(/\ Repaired
        /\ generateCredentialKey(last'.val.credential) # last'.key
        /\ containsKey(Now, last'.key)) =>
          LET newKey == generateCredentialKey(last'.val.credential)
          IN  /\ last'.val.result = newKey
              /\ ~containsKey(After, last'.key)
              /\ getItem(After, newKey) = getItem(Now, last'.key)
              /\ \A key \in (getKeys(Now) \cup getKeys(After)) \ {last'.key, newKey} :
                    getItem(After, key) = getItem(Now, key)]_vars

\* C17: updateCredentialCacheKey(oldKey, e) with genK(e) = oldKey returns
\* oldKey, leaves the flat store unchanged and invokes no callback.
C17_RepairCurrentKey ==
    [][(Repaired /\ generateCredentialKey(last'.val.credential) = last'.key) =>
          /\ last'.val.result = last'.key
          /\ cache' = cache
          /\ called' = <<>>
          /\ last'.emits = 0]_vars

C17_Witness ==
    /\ last.op = "updateCredentialCacheKey"
    /\ generateCredentialKey(last.val.credential) = last.key
    /\ Truthy(getItem(Now, last.key))
    /\ changeEmitters # <<>>

\* C18: updateCredentialCacheKey(oldKey, e) with nothing under oldKey and
\* genK(e) # oldKey returns oldKey, creates no entry under the new key,
\* leaves the flat store unchanged and invokes no callback.
C18_RepairNothingFound ==
    [][(/\ Repaired
        /\ generateCredentialKey(last'.val.credential) # last'.key
        /\ ~containsKey(Now, last'.key)) =>
          /\ last'.val.result = last'.key
          /\ cache' = cache
          /\ called' = <<>>
          /\ last'.emits = 0]_vars

C18_Witness ==
    /\ last.op = "updateCredentialCacheKey"
    /\ generateCredentialKey(last.val.credential) # last.key
    /\ last.val.result = last.key
    /\ getKeys(Now) = {<<"idtoken", 2>>}
    /\ changeEmitters # <<>>

\* this step and the one before it are repairs with the same credential
RepairedAgain ==
    /\ last.op = "updateCredentialCacheKey"
    /\ Repaired
    /\ last'.val.credential = last.val.credential

\* C19 as stated: two calls updateCredentialCacheKey(k, e) in succession
\* return the same key, and if the key changed, k is gone afterwards.
C19_RepairTwice ==
    [][(RepairedAgain /\ last'.key = last.key) =>
          /\ last'.val.result = last.val.result
          /\ last.val.result # last.key => ~containsKey(After, last.key)]_vars

\* C19 as amended: a second call on the key the first call returned returns
\* that key again, and if the first call changed the key, k is gone afterwards.
C19_RepairReturnedKey ==
    [][(RepairedAgain /\ last'.key = last.val.result) =>
          /\ last'.val.result = last.val.result
          /\ last.val.result # last.key => ~containsKey(After, last.key)]_vars

C19_Witness ==
    /\ last.op = "updateCredentialCacheKey"
    /\ last.val.previous.result = last.key
    /\ last.val.previous.key # last.key
    /\ last.val.result = last.key
    /\ ~containsKey(Now, last.val.previous.key)
    /\ Truthy(getItem(Now, last.key))

\* C20: key repair is not atomic: when it moves an entry, a change callback
\* runs after the old key is removed and before the new key is written, and
\* reads a store that has the entry under neither key.
C20_RepairNotAtomic ==
    [][(Repaired /\ last'.ok /\ changeEmitters # <<>>) =>
          \E j \in 1..Len(called') :
             /\ called'[j].seen = Del(cache, last'.key)
             /\ last'.key \notin DOMAIN called'[j].seen
             /\ last'.val.result \in DOMAIN called'[j].seen =>
                   /\ containsKey(Now, last'.val.result)
                   /\ called'[j].seen[last'.val.result] = getItem(Now, last'.val.result)]_vars

C20_Witness ==
    /\ last.op = "updateCredentialCacheKey"
    /\ last.ok
    /\ changeEmitters # <<>>
    /\ \E j \in 1..Len(called) :
          /\ last.key \notin DOMAIN called[j].seen
          /\ last.val.result \notin DOMAIN called[j].seen
    /\ Truthy(getItem(Now, last.val.result))

AuthorityKeysListed ==
    last.op = "getAuthorityMetadataKeys" =>
        last.val = {key \in getKeys(Now) : isAuthorityMetadata(key)}

AuthorityKeysReadOnly ==
    last'.op = "getAuthorityMetadataKeys" =>
        /\ cache' = cache
        /\ called' = <<>>
        /\ \A key \in TypedKeys : key \in last'.val <=> (key \in DOMAIN cache /\ isAuthorityMetadata(key))

\* C22: getAuthorityMetadataKeys() returns exactly the keys of getKeys() that
\* isAuthorityMetadata accepts, whatever is stored under them and whatever
\* the bucketed view holds.
C22_AuthorityMetadataKeys == []AuthorityKeysListed /\ [][AuthorityKeysReadOnly]_vars

C22_Witness ==
    /\ last.op = "getAuthorityMetadataKeys"
    /\ \E key \in last.val :
          /\ getAuthorityMetadata(Now, key) = Null
          /\ key \in getAccountKeys(Now)

\* the keys of the view whose entry the store holds
Held(view, store) ==
    {key \in ViewKeys(view) :
        key \in DOMAIN store /\ store[key] = LatestOf(view, store, key)}

\* C21 as stated: setInMemoryCache(V) is not atomic: where a change callback
\* can run, the flat store can hold some but not all of the entries of V.
C21_PartlyVisible ==
    [][(/\ last'.op = "setInMemoryCache"
        /\ changeEmitters # <<>>
        /\ Cardinality(ViewKeys(last'.val)) >= 2
        /\ Held(last'.val, cache) = {}) =>
          \E j \in 1..Len(called') :
             Held(last'.val, called'[j].seen) \notin {{}, ViewKeys(last'.val)}]_vars

\* C21 as amended: setInMemoryCache(V) installs the merged store by one
\* assignment: every change callback it invokes, and the caller on return,
\* reads a flat store that holds all the entries of V.
C21_AllAtOnce ==
    [][last'.op = "setInMemoryCache" =>
          /\ Held(last'.val, cache') = ViewKeys(last'.val)
          /\ \A j \in 1..Len(called') :
                /\ called'[j].seen = cache'
                /\ Held(last'.val, called'[j].seen) = ViewKeys(last'.val)]_vars

C21_Witness ==
    /\ last.op = "setInMemoryCache"
    /\ changeEmitters # <<>>
    /\ called # <<>>
    /\ Cardinality(ViewKeys(last.val)) >= 2
    /\ Cardinality(getKeys(Now)) > Cardinality(ViewKeys(last.val))

EmptyView == InMemoryCache(EmptyMap, EmptyMap, EmptyMap, EmptyMap, EmptyMap)

\* C23: setInMemoryCache takes any bucketed view, the empty one included,
\* and removes no key; with the empty view, or with the view getInMemoryCache()
\* just returned, the keys and values of the flat store stay as they were.
C23_SetInMemoryCacheKeeps ==
    [][last'.op = "setInMemoryCache" =>
          /\ getKeys(Now) \subseteq getKeys(After)
          /\ last'.val \in {EmptyView, getInMemoryCache(Now)} => cache' = cache]_vars

C23_Witness ==
    /\ last.op = "setInMemoryCache"
    /\ last.val = getInMemoryCache(Now)
    /\ last.val # EmptyView
    /\ getKeys(Now) # ViewKeys(last.val)

\* every entry of the view is of the kind of its bucket
Recognised(view) ==
    \A i \in DOMAIN BucketNames : \A key \in DOMAIN view[BucketNames[i]] :
        view[BucketNames[i]][key].shape = BucketOrder[i]

\* the same entities under the same keys in the same buckets
Equivalent(view, other) ==
    \A i \in DOMAIN BucketNames :
        /\ DOMAIN view[BucketNames[i]] = DOMAIN other[BucketNames[i]]
        /\ \A key \in DOMAIN view[BucketNames[i]] :
              /\ view[BucketNames[i]][key].shape = other[BucketNames[i]][key].shape
              /\ view[BucketNames[i]][key].id = other[BucketNames[i]][key].id

C25_CodecPure ==
    [][last'.op \in {"generateInMemoryCache", "generateJsonCache"} =>
          /\ cache' = cache
          /\ changeEmitters' = changeEmitters
          /\ called' = <<>>
          /\ last'.emits = 0]_vars

C25_Witness ==
    /\ last.op = "generateJsonCache"
    /\ last.val.view.accounts # EmptyMap
    /\ cache # EmptyMap
    /\ changeEmitters # <<>>
    /\ called = <<>>

\* C26: one successful removeItem call and one setInMemoryCache call each
\* invoke every registered callback exactly once, as one setItem call does.
C26_OneNotification ==
    (last.op = "setInMemoryCache" \/ (last.op = "removeItem" /\ last.ok)) =>
        /\ last.emits = 1
        /\ Len(called) = Len(changeEmitters)

\* C27: clear() is synchronous in effect: when the call returns all its
\* removals and notifications have happened, getKeys() is already empty, and
\* nothing is notified or changed when the returned promise settles.
C27_ClearSynchronous ==
    [][/\ last'.op = "clear" => getKeys(After) = {}
       /\ last'.op = "clearSettled" =>
             /\ cache' = cache
             /\ called' = <<>>
             /\ getKeys(After) = {}]_vars

\* C28: in every reachable state, externally written entries included, a
\* key is in getAccountKeys() iff getAccount(key) is non-null, and in the
\* idToken / accessToken / refreshToken keys of getTokenKeys() iff the
\* getter of that kind returns non-null for it.
C28_ViewAgreesWithGetters ==
    LET tokens == getTokenKeys(Now)
    IN  \A key \in getKeys(Now) :
           /\ key \in getAccountKeys(Now) <=> getAccount(Now, key) # Null
           /\ key \in tokens.idToken <=> getIdTokenCredential(Now, key) # Null
           /\ key \in tokens.accessToken <=> getAccessTokenCredential(Now, key) # Null
           /\ key \in tokens.refreshToken <=> getRefreshTokenCredential(Now, key) # Null

\* C29: in every reachable state the five buckets of getInMemoryCache() have
\* pairwise disjoint keys, every bucket key is a key of the flat store, and
\* the bucket holds under it the value the flat store holds under it.
C29_BucketsPartition ==
    LET view == getInMemoryCache(Now)
    IN  /\ \A i, j \in DOMAIN BucketNames :
              i # j => DOMAIN view[BucketNames[i]] \cap DOMAIN view[BucketNames[j]] = {}
        /\ \A i \in DOMAIN BucketNames :
              /\ DOMAIN view[BucketNames[i]] \subseteq getKeys(Now)
              /\ \A key \in DOMAIN view[BucketNames[i]] :
                    view[BucketNames[i]][key] = getItem(Now, key)

C29_Witness ==
    /\ last.op = "getInMemoryCache"
    /\ last.val.accounts # EmptyMap
    /\ last.val.idTokens # EmptyMap
    /\ last.val.accessTokens # EmptyMap
    /\ last.val.refreshTokens # EmptyMap
    /\ Cardinality(getKeys(Now)) > Cardinality(ViewKeys(last.val))

\* C30: calculateQueuedTime(preQueueTime, currentTime) returns 0 when
\* preQueueTime < 1, when currentTime < 1 or when currentTime < preQueueTime,
\* and currentTime - preQueueTime otherwise; the result is never negative
\* and is 0 when the two times are equal.
C30_QueuedTime ==
    queueTime.returned =>
        /\ (\/ queueTime.preQueueTime < 1
            \/ queueTime.currentTime < 1
            \/ queueTime.currentTime < queueTime.preQueueTime) => queueTime.result = 0
        /\ (/\ queueTime.preQueueTime >= 1
            /\ queueTime.currentTime >= queueTime.preQueueTime) =>
              queueTime.result = queueTime.currentTime - queueTime.preQueueTime
        /\ queueTime.result >= 0
        /\ queueTime.currentTime = queueTime.preQueueTime => queueTime.result = 0

C30_Witness ==
    /\ queueTime.returned
    /\ queueTime.preQueueTime >= 1
    /\ queueTime.currentTime >= 1
    /\ queueTime.currentTime < queueTime.preQueueTime
    /\ queueTime.result = 0

----------------------------------------------------------------------------
(* Queue measurements *)

\* the queue measurements held for a correlation id, none if it has no list
QueuedFor(m, correlationId) ==
    IF correlationId \in DOMAIN m THEN m[correlationId] ELSE <<>>

\* an addQueueMeasurement call that was given a correlation id and a queue time
Recorded(call) ==
    /\ call.op = "addQueueMeasurement"
    /\ ~NoCorrelationId(call.args.correlationId)
    /\ call.args.queueTime # NotGiven

\* C31: addQueueMeasurement without a correlation id (undefined or "") or
\* without a queue time changes no map of the client.  With both, a queue
\* time of 0 included, it appends {eventName, queueTime, manuallyCompleted}
\* to the end of the list of its correlation id, leaves every other list as
\* it was, and deletes the pre-queue event of that correlation id and no
\* other, so that getPreQueueTime then finds none for it.
C31_AddQueueMeasurement ==
    [][/\ (perf'.op = "addQueueMeasurement" /\ ~Recorded(perf')) =>
            /\ queueMeasurements' = queueMeasurements
            /\ preQueueTimeByCorrelationId' = preQueueTimeByCorrelationId
            /\ eventsByCorrelationId' = eventsByCorrelationId
            /\ callbacks' = callbacks
       /\ Recorded(perf') =>
            LET correlationId == perf'.args.correlationId[1]
            IN  /\ QueuedFor(queueMeasurements', correlationId) =
                      Append(QueuedFor(queueMeasurements, correlationId),
                             [eventName |-> perf'.args.eventName,
                              queueTime |-> perf'.args.queueTime[1],
                              manuallyCompleted |-> perf'.args.manuallyCompleted])
                /\ \A other \in DOMAIN queueMeasurements' \ {correlationId} :
                      /\ other \in DOMAIN queueMeasurements
                      /\ queueMeasurements'[other] = queueMeasurements[other]
                /\ DOMAIN queueMeasurements \subseteq DOMAIN queueMeasurements'
                /\ preQueueTimeByCorrelationId' =
                      Del(preQueueTimeByCorrelationId, correlationId)
                /\ eventsByCorrelationId' = eventsByCorrelationId
                /\ callbacks' = callbacks
       /\ (/\ Recorded(perf)
           /\ perf'.op = "getPreQueueTime"
           /\ perf'.args.correlationId = perf.args.correlationId[1]) =>
            perf'.result = NotGiven
      ]_vars

\* a queue time of 0 was recorded second in the list of "c1", while the
\* pre-queue event of "c2" is still held
C31_Witness ==
    /\ Recorded(perf)
    /\ perf.args.correlationId = Given("c1")
    /\ perf.args.queueTime = Given(0)
    /\ Len(QueuedFor(queueMeasurements, "c1")) = 2
    /\ queueMeasurements["c1"][2].queueTime = 0
    /\ queueMeasurements["c1"][1].queueTime = 2
    /\ "c1" \notin DOMAIN preQueueTimeByCorrelationId
    /\ "c2" \in DOMAIN preQueueTimeByCorrelationId

----------------------------------------------------------------------------
(* Measurements *)

\* the event of a correlation id that is in progress, if any
InProgress(events, correlationId) ==
    IF correlationId \in DOMAIN events THEN Given(events[correlationId].eventId)
    ELSE NotGiven

\* an endMeasurement call that emitted: it returned a completed event
Emitted(call) ==
    /\ call.op = "endMeasurement"
    /\ call.result # NotGiven
    /\ call.result[1].status = "Completed"

\* the measurement's root has been ended and no root was started for its
\* correlation id since
RootEndedFor(eventId) ==
    LET measurement == measurements[eventId]
        root == measurements[measurement.root]
    IN  /\ root.ended
        /\ \A other \in DOMAIN measurements :
              ~(/\ measurements[other].event.correlationId = measurement.event.correlationId
                /\ measurements[other].root = other
                /\ measurements[other].started > root.started)

\* C32: a measurement started for a correlation id that has no event in
\* progress becomes its root, one started later is entered as a
\* sub-measurement of that root.  A call of endMeasurement emits (returns a
\* completed event, invokes callbacks) only for the root in progress and only
\* if that measurement was never ended before; ending a sub-measurement
\* invokes no callback.  After the root was ended and until another root is
\* started for the correlation id, ending any of its measurements returns
\* null and invokes no callback.  Ending the root leaves the correlation id
\* without in-progress event, queue measurements and pre-queue time.
C32_RootAndSubMeasurements ==
    [][/\ perf'.op = "startMeasurement" =>
            LET event == perf'.result[1]
            IN  IF InProgress(eventsByCorrelationId, event.correlationId) = NotGiven
                THEN /\ InProgress(eventsByCorrelationId', event.correlationId) =
                            Given(event.eventId)
                     /\ eventsByCorrelationId'[event.correlationId].incompleteSubMeasurements = {}
                ELSE /\ InProgress(eventsByCorrelationId', event.correlationId) =
                            InProgress(eventsByCorrelationId, event.correlationId)
                     /\ event.eventId \in
                            eventsByCorrelationId'[event.correlationId].incompleteSubMeasurements
       /\ perf'.op = "endMeasurement" =>
            LET event == perf'.args.event
                isRoot == InProgress(eventsByCorrelationId, event.correlationId) =
                              Given(event.eventId)
            IN  /\ (Emitted(perf') \/ perf'.invoked # <<>>) =>
                      /\ isRoot
                      /\ ~measurements[event.eventId].ended
                      /\ Emitted(perf')
                      /\ \A i \in DOMAIN perf'.invoked :
                            perf'.invoked[i].events = <<perf'.result[1]>>
                /\ RootEndedFor(event.eventId) =>
                      /\ perf'.result = NotGiven
                      /\ perf'.invoked = <<>>
                /\ isRoot =>
                      /\ event.correlationId \notin DOMAIN eventsByCorrelationId'
                      /\ event.correlationId \notin DOMAIN queueMeasurements'
                      /\ event.correlationId \notin DOMAIN preQueueTimeByCorrelationId'
      ]_vars

\* with a callback registered, the root of "c1" and its sub-measurement were
\* both ended, and ending one of them with a measured duration returned null
\* and invoked nothing
C32_Witness ==
    /\ perf.op = "endMeasurement"
    /\ perf.args.durationMs = Given(3)
    /\ perf.result = NotGiven
    /\ perf.invoked = <<>>
    /\ callbacks # <<>>
    /\ perf.args.event.correlationId = "c1"
    /\ RootEndedFor(perf.args.event.eventId)
    /\ \E sub \in DOMAIN measurements :
          /\ measurements[sub].root # sub
          /\ measurements[sub].root = measurements[perf.args.event.eventId].root
          /\ measurements[sub].ended

\* the sum of the queue times of a list of queue measurements
RECURSIVE SumOfQueueTimes(_)
SumOfQueueTimes(list) ==
    IF list = <<>> THEN 0
    ELSE list[Len(list)].queueTime + SumOfQueueTimes(SubSeq(list, 1, Len(list) - 1))

\* the sub-measurements started under a root and never ended
IncompleteSubs(rootId) ==
    {eventId \in DOMAIN measurements :
        /\ eventId # rootId
        /\ measurements[eventId].root = rootId
        /\ ~measurements[eventId].ended}

C34_DiscardForgets ==
    [][/\ perf'.op = "discardMeasurement" =>
            LET correlationId == perf'.args.event.correlationId
            IN  /\ correlationId \notin DOMAIN eventsByCorrelationId'
                /\ correlationId \notin DOMAIN queueMeasurements'
                /\ correlationId \notin DOMAIN preQueueTimeByCorrelationId'
       /\ (/\ perf.op = "discardMeasurement"
           /\ perf'.op = "endMeasurement"
           /\ perf'.args.event = perf.args.event) =>
            /\ perf'.result = NotGiven
            /\ perf'.invoked = <<>>
       /\ (/\ perf.op = "discardMeasurement"
           /\ perf'.op = "startMeasurement"
           /\ perf'.result[1].correlationId = perf.args.event.correlationId) =>
            QueuedFor(queueMeasurements', perf.args.event.correlationId) = <<>>
      ]_vars

----------------------------------------------------------------------------
(* Performance callbacks *)

\* the invocations a call made of the callback registered under an id
InvocationsOf(call, callbackId) ==
    {i \in DOMAIN call.invoked : call.invoked[i].callbackId = callbackId}

\* C35: removePerformanceCallback(id) returns true exactly when a callback
\* is registered under id at the call, and afterwards none is; a call that
\* emits an event invokes each callback registered at that moment exactly
\* once, with that event, and invokes nothing else, so a callback removed
\* earlier is not invoked.
C35_Callbacks ==
    [][/\ perf'.op = "removePerformanceCallback" =>
            /\ perf'.result = Given(\E i \in DOMAIN callbacks :
                                       callbacks[i].callbackId = perf'.args.callbackId)
            /\ \A i \in DOMAIN callbacks' :
                  callbacks'[i].callbackId # perf'.args.callbackId
            /\ \A i \in DOMAIN callbacks :
                  callbacks[i].callbackId # perf'.args.callbackId =>
                     \E j \in DOMAIN callbacks' : callbacks'[j] = callbacks[i]
       /\ Emitted(perf') =>
            /\ \A i \in DOMAIN callbacks :
                  Cardinality(InvocationsOf(perf', callbacks[i].callbackId)) = 1
            /\ \A i \in DOMAIN perf'.invoked :
                  /\ \E j \in DOMAIN callbacks :
                        /\ callbacks[j].callbackId = perf'.invoked[i].callbackId
                        /\ callbacks[j].callback = perf'.invoked[i].callback
                  /\ perf'.invoked[i].events = <<perf'.result[1]>>
       /\ (perf'.op # "endMeasurement" \/ ~Emitted(perf')) => perf'.invoked = <<>>
      ]_vars

\* two callbacks were registered and the first was removed; the event of a
\* root then went to the second one alone
C35_Witness ==
    /\ Emitted(perf)
    /\ generated = 3
    /\ Len(callbacks) = 1
    /\ callbacks[1].callbackId = "id2"
    /\ Len(perf.invoked) = 1
    /\ perf.invoked[1].callbackId = "id2"

----------------------------------------------------------------------------
(* Network requests *)

\* the JSON text of a value: `depth` opening brackets, the number if there
\* is one, `depth` closing brackets
JsonText(depth, number) ==
    [i \in 1..(2 * depth + (IF number THEN 1 ELSE 0)) |->
        IF i <= depth THEN "["
        ELSE IF number /\ i = depth + 1 THEN "1"
        ELSE "]"]

\* the values whose JSON text is this body
ValuesOf(body) ==
    {value \in [depth : 0..MaxBody, number : BOOLEAN] :
        /\ body.readable
        /\ value.depth > 0 \/ value.number
        /\ body.text = JsonText(value.depth, value.number)}

RequestFailed(method) ==
    IF method = "GET" THEN "createGetRequestFailedError"
    ELSE "createPostRequestFailedError"

\* C36: a request is pending until it settles, and it settles in exactly one
\* way.  Settling without a response from fetch, it throws the
\* no-network-connectivity error if navigator.onLine is false at that moment
\* and otherwise the get-request-failed error for a GET and the
\* post-request-failed error for a POST.  Settling after fetch resolved, it
\* throws the failed-to-parse-network-response error if the body is not the
\* JSON text of a value, and otherwise returns the response's status, a
\* dictionary with each of its headers, and the value the body is the text of.
C36_FourOutcomes ==
    /\ [](request.phase = "settled" <=> request.outcome # NotGiven)
    /\ [][(request'.phase = "settled" /\ request' # request) =>
            LET outcome == request'.outcome[1]
            IN  IF request.phase # "parsing"
                THEN /\ outcome.threw
                     /\ outcome.response = NotGiven
                     /\ outcome.error = IF onLine THEN RequestFailed(request'.method)
                                        ELSE "createNoNetworkConnectivityError"
                ELSE LET response == request.response[1]
                     IN  IF ValuesOf(response.body) = {}
                         THEN /\ outcome.threw
                              /\ outcome.response = NotGiven
                              /\ outcome.error = "createFailedToParseNetworkResponseError"
                         ELSE /\ ~outcome.threw
                              /\ outcome.error = ""
                              /\ outcome.response[1].status = response.status
                              /\ DOMAIN outcome.response[1].headers =
                                    {response.headers[i][2] : i \in DOMAIN response.headers}
                              /\ \A i \in DOMAIN response.headers :
                                    outcome.response[1].headers[response.headers[i][2]] =
                                        response.headers[i][1]
                              /\ \E value \in ValuesOf(response.body) :
                                    /\ outcome.response[1].body.depth = value.depth
                                    /\ outcome.response[1].body.number =
                                          (IF value.number THEN Given(1) ELSE NotGiven)
          ]_vars

\* a POST was answered with status 400, two headers and the body [1], and
\* returned them while the browser was offline
C36_Witness ==
    /\ request.phase = "settled"
    /\ request.method = "POST"
    /\ ~onLine
    /\ ~request.outcome[1].threw
    /\ request.outcome[1].response[1].status = 400
    /\ request.outcome[1].response[1].body = [depth |-> 1, number |-> Given(1)]
    /\ DOMAIN request.outcome[1].response[1].headers = {"content-type", "x-ms-request-id"}

====
